---------------------------- MODULE Spec2Model ----------------------------
(***************************************************************************)
(* Forest Runner: the benchmark orchestration engine.                      *)
(*                                                                         *)
(* Run starts a pool of workers that take backend URLs from a closed,      *)
(* buffered channel.  For one URL, runForURL discovers the models, filters *)
(* them by the exclusion list, health-checks each model with               *)
(* StreamInference and benchmarks it with Inference once per inference     *)
(* configuration, writing one Result per benchmark to the CSV and the JSON *)
(* writer.  Every try of Inference, and every call of StreamInference,     *)
(* races the request against monitorLoading, which polls /api/ps and       *)
(* aborts the try when the placement violates the configured guards.       *)
(***************************************************************************)
EXTENDS Integers, Sequences, FiniteSets, TLC

(***************************************************************************)
(* Bounds of the model.                                                    *)
(***************************************************************************)
MaxTargets == 2
MaxConcurrency == 2
MaxRetriesBound == 2
MaxConfigs == 2
MaxLines == 4
MaxBytes == 3
MaxFiles == 2
MaxPolls == 3
MaxText == 3
MaxEval == 2
MaxName == 2
MaxResident == 2
MaxCount == 100
MaxHalves == 6
MaxRecords == 3
MaxStamp == 2

Hosts == {"h1", "h2"}

Min(a, b) == IF a < b THEN a ELSE b

(***************************************************************************)
(* Strings are sequences of characters.  strings.ToLower maps the upper    *)
(* case letters to lower case and leaves every other character alone.      *)
(***************************************************************************)
LowerOf == [c \in {"A", "B", "C", "D", "E", "H", "M", "T"} |->
              CASE c = "A" -> "a" [] c = "B" -> "b" [] c = "C" -> "c"
                [] c = "D" -> "d" [] c = "E" -> "e" [] c = "H" -> "h"
                [] c = "M" -> "m" [] c = "T" -> "t"]

ToLower(s) == [i \in 1..Len(s) |-> IF s[i] \in DOMAIN LowerOf THEN LowerOf[s[i]] ELSE s[i]]

\* strings.Contains: substr occurs in s at some offset (the empty string at offset 0).
Contains(s, substr) ==
    \E i \in 0..(Len(s) - Len(substr)) : SubSeq(s, i + 1, i + Len(substr)) = substr

\* Model names and exclusion substrings used by the configurations below.
a_embed == <<"a", ":", "e", "m", "b", "e", "d">>
b_chat == <<"b", ":", "c", "h", "a", "t">>
A_EMBED == <<"A", ":", "E", "M", "B", "E", "D">>
s_embed == <<"e", "m", "b", "e", "d">>
s_EMBED == <<"E", "M", "B", "E", "D">>
s_b == <<"b">>

(***************************************************************************)
(* Errors.  Nil is Go's nil error; every other error is its text (the      *)
(* wrapped cause of a transport error is not kept).                        *)
(***************************************************************************)
Nil == "<nil>"
ErrAbortCPU == "ABORT: Model loaded 100% on CPU (cpu_only_allowed=false)"
ErrAbortSplit == "ABORT: Model is partially on CPU (gpu_only=true)"
ErrHeaderTimeout == "Ollama Header Timeout (model loading?)"
ErrNetwork == "Network/Connection Error"
ErrServer == "Ollama Server Error"
ErrReadBody == "failed to read response body"
ErrInvalidJSON == "Ollama returned invalid JSON"
ErrAPI == "Ollama API Error"
ErrStreamIncomplete == "stream incomplete or failed to start"

AbortReasons == {ErrAbortCPU, ErrAbortSplit}

(***************************************************************************)
(* The streamed response body as bufio.Scanner delivers it.  A body is its *)
(* lines and errAt: 0 when the body ends with a clean EOF, and otherwise    *)
(* the index of the first line that is delivered with the scanner's error   *)
(* already set (the read that brought that line also returned the error);   *)
(* errAt = Len(lines) + 1 is an error after the last line.                  *)
(*   empty    a line of length 0                                            *)
(*   garbage  not JSON                                                      *)
(*   typeerr  JSON whose fields have the wrong type (json.Unmarshal fails)  *)
(*   chunk    {"response": ..., "done": false}                              *)
(*   done     {"response": ..., "done": true}                               *)
(*   toolong  a line longer than the scanner's buffer (bufio.ErrTooLong)    *)
(***************************************************************************)
LineKinds == {"empty", "garbage", "typeerr", "chunk", "done", "toolong"}

SeqsUpTo(S, n) == UNION {[1..k -> S] : k \in 0..n}

Bodies ==
    {b \in [lines : SeqsUpTo(LineKinds, MaxLines), errAt : 0..(MaxLines + 1)] :
        b.errAt <= Len(b.lines) + 1}

\* scanner.Err() after line i was delivered (i = Len + 1: after Scan returned false).
ScannerErr(body, i) ==
    \/ body.errAt # 0 /\ body.errAt <= i
    \/ \E j \in 1..Min(i, Len(body.lines)) : body.lines[j] = "toolong"

\* json.Unmarshal(line, &chunk) returns nil
Unmarshals(line) == line \in {"chunk", "done"}

RECURSIVE scanFrom(_, _)
\* The loop of processStream from line i on: TRUE when it breaks with gotDone.
scanFrom(body, i) ==
    IF i > Len(body.lines) THEN FALSE
    ELSE IF body.lines[i] = "toolong" THEN FALSE
    ELSE IF body.lines[i] = "empty" THEN scanFrom(body, i + 1)
    ELSE IF ~Unmarshals(body.lines[i]) THEN scanFrom(body, i + 1)
    ELSE IF body.lines[i] = "done" THEN ~ScannerErr(body, i)
    ELSE scanFrom(body, i + 1)

\* A reader that gives up at the first line it cannot decode.
processStream_strict(body) ==
    /\ scanFrom(body, 1)
    /\ \A j \in 1..Len(body.lines) :
          (\A k \in 1..j : body.lines[k] # "done") => body.lines[j] \notin {"garbage", "typeerr"}

processStream(body) == scanFrom(body, 1)

(***************************************************************************)
(* monitorLoading's verdict on one sample of /api/ps: Nil to keep polling, *)
(* or the abort reason.                                                    *)
(***************************************************************************)
\* A guard whose split check is passed by a model with nothing in VRAM.
GuardVerdict_split(size, sizeVRAM, cpuOnlyAllowed, gpuOnly) ==
    IF size = 0 THEN Nil
    ELSE IF sizeVRAM = 0 /\ ~cpuOnlyAllowed THEN ErrAbortCPU
    ELSE IF 0 < sizeVRAM /\ sizeVRAM < size /\ gpuOnly THEN ErrAbortSplit
    ELSE Nil

GuardVerdict(size, sizeVRAM, cpuOnlyAllowed, gpuOnly) ==
    IF size = 0 THEN Nil
    ELSE IF sizeVRAM = 0 /\ ~cpuOnlyAllowed THEN ErrAbortCPU
    ELSE IF sizeVRAM < size /\ gpuOnly THEN ErrAbortSplit
    ELSE Nil

\* What GetRunningModelInfo can return: an error, or (size, size_vram); (0, 0) is "not resident".
PsSamples == {[err |-> TRUE, size |-> 0, vram |-> 0]} \cup
             {[err |-> FALSE, size |-> s[1], vram |-> s[2]] : s \in {<<0, 0>>, <<2, 0>>, <<2, 1>>, <<2, 2>>}}

(***************************************************************************)
(* model.Result.  id is not a field of the record: it names the call of    *)
(* Inference (list entry, model index, configuration index) the Result     *)
(* came from.                                                              *)
(***************************************************************************)
EmptyResult ==
    [id |-> <<0, 0, 0>>, Model |-> <<>>, URL |-> "", Config |-> 0,
     Duration |-> 0, TotalDuration |-> 0, LoadDuration |-> 0,
     PromptEvalCount |-> 0, PromptEvalDuration |-> 0, EvalCount |-> 0, EvalDuration |-> 0,
     MemoryUsage |-> 0, VRAMUsage |-> 0, VRAMPercentage |-> 0,
     TokensGenerated |-> 0, TokensReturned |-> 0, Response |-> <<>>, Error |-> ""]

\* The decoded body of a successful /api/generate response.
ServerData ==
    {[Response |-> <<"o", "k">>, TotalDuration |-> 9, LoadDuration |-> 3, PromptEvalCount |-> 4,
      PromptEvalDuration |-> 2, EvalCount |-> 100, EvalDuration |-> 2]}

\* len(strings.Split(s, " ")): one more than the number of spaces.
SplitCount(s) == Cardinality({i \in 1..Len(s) : s[i] = " "}) + 1

(***************************************************************************)
(* State.                                                                  *)
(*   cfg       config.Config as Run receives it (InferConfigs is           *)
(*             1..cfg.NumConfigs; a configuration is named by its index)   *)
(*   tags      the backend: the model names /api/tags of a host lists      *)
(*   disk      the output files that take no more data once they are open  *)
(*   runPc     where Run is: "start", "wait" (wg.Wait) or "returned"       *)
(*   runErr    the error Run returned                                      *)
(*   closed    the writers whose deferred Close has run                    *)
(*   panicked  a goroutine panicked: the process is gone                   *)
(*   urlChan   the entries of cfg.URLs still in the channel, by index      *)
(*   pc        where each worker goroutine is                              *)
(*   url       the entry of cfg.URLs the worker is processing              *)
(*   models, mi, ci   runForURL's model list and its two loop indices      *)
(*   i, lastErr       the retry loop of StreamInference or Inference       *)
(*   res, err         what Inference returned to runForURL                 *)
(*   abort     the abort channel of the current try ("" when empty)        *)
(*   ctxDone   the context of the current try is cancelled or expired      *)
(*   mon       the monitorLoading goroutine of the current try is running  *)
(*   fired     an abort reason a monitor delivered during the current call *)
(*   reqs      the generate requests the current call has issued           *)
(*   sleeps    the retry delays the current call has slept                 *)
(*   csv, json the records handed to each writer, in file order: the id    *)
(*             and the Error of each                                       *)
(*   wfail     the writers whose Write has returned an error (the "Failed  *)
(*             to write result" log events)                                *)
(*   notices   the "Skipping model (excluded)" log events                  *)
(*   undiscovered  the "Failed to discover models" log events, by entry    *)
(*   called    the calls of Inference made so far                          *)
(*   checked   the calls of StreamInference made so far                    *)
(*   sbody, sret      a body given to processStream and what it returned   *)
(*   seen      one call on its own: what the request path got last (the    *)
(*             reply, where it was, the abort pending and the state of the *)
(*             context at that moment)                                     *)
(*   gin, gret        one /api/ps sample with the two guard flags, and     *)
(*             what the guard made of it                                   *)
(*   polls     one monitor on its own: the samples it has polled, each     *)
(*             with whether its context was done when the poll began       *)
(*   psin, psret      one placement query on its own: the answer of        *)
(*             /api/ps with the name asked for, and what the query returns *)
(*   row, shown       one Result given to forest_summary and the Tk/s cell *)
(*             it shows for it                                             *)
(*   results, merged, applied   an array of Results given to               *)
(*             forest_merge_results, what it returned, and how often it    *)
(*             has been applied                                            *)
(*   fs        the paths that exist in the output directory                *)
(*   outFile   cfg.OutputFile                                              *)
(*   pathPc    where Run is in setting up its two output files             *)
(*   csvPath, jsonPath   the paths Run resolved for the two streams        *)
(*   truncated    the paths os.Create found existing, and truncated        *)
(*   sinkPc, load, todo   two writers on their own: where each worker is in*)
(*             the Write it is making, the Results it has to write in all, *)
(*             and those it has still to write                             *)
(*   csvMu, jsonMu    the mutex of each writer: the worker that holds it,  *)
(*             or 0                                                        *)
(*   csvBuf    the fields in the buffer of the csv.Writer                  *)
(*   csvFile, jsonFile   what is in the files: fields, and whole lines     *)
(***************************************************************************)
VARIABLES cfg, tags, runPc, runErr, closed, panicked, urlChan,
          pc, url, models, mi, ci, i, lastErr, res, err,
          abort, ctxDone, mon, fired, reqs,
          sleeps,
          disk, csv, json, wfail, notices, undiscovered, called, checked,
          sbody, sret, seen, gin, gret, polls, psin, psret,
          row, shown, results, merged, applied,
          sinkPc, load, todo, csvMu, csvBuf, csvFile, jsonMu, jsonFile,
          fs, outFile, pathPc, csvPath, jsonPath, truncated

runVars == <<cfg, tags, disk, runPc, runErr, closed, panicked, urlChan>>
loopVars == <<url, models, mi, ci>>
tryVars == <<i, lastErr, res, err, abort, ctxDone, mon, fired, reqs, sleeps>>
outVars == <<csv, json, wfail, notices, undiscovered, called, checked>>
streamVars == <<sbody, sret, seen>>
guardVars == <<gin, gret, polls>>
psVars == <<psin, psret>>
jqVars == <<row, shown, results, merged, applied>>
pathVars == <<fs, outFile, pathPc, csvPath, jsonPath, truncated>>
sinkVars == <<sinkPc, load, todo, csvMu, csvBuf, csvFile, jsonMu, jsonFile>>
unitVars == <<streamVars, guardVars, psVars, jqVars, pathVars, sinkVars>>
vars == <<runVars, pc, loopVars, tryVars, outVars, unitVars>>

Workers == 1..MaxConcurrency

(***************************************************************************)
(* Configurations and backends the model is run with.                      *)
(***************************************************************************)
GuardSettings == {<<TRUE, FALSE>>, <<FALSE, TRUE>>}

Config(urls, mods, excl, n, retries, conc, guards) ==
    [URLs |-> urls, Models |-> mods, Exclude |-> excl, NumConfigs |-> n,
     MaxRetries |-> retries, Concurrency |-> conc,
     GPUOnly |-> guards[1], CPUOnlyAllowed |-> guards[2]]

\* One target and one worker; every retry budget, configuration list and filter.
SerialConfigs ==
    {Config(<<"h1">>, mods, excl, n, r, 1, g) :
        mods \in {<<>>, <<b_chat, A_EMBED>>},
        excl \in {<<>>, <<s_embed>>, <<s_EMBED, s_b>>},
        n \in 0..MaxConfigs, r \in 0..MaxRetriesBound, g \in GuardSettings}

\* Target lists and concurrency levels of a fleet, without and with an explicit
\* model list.  h1 is the host with a model to test and h2 the host whose models
\* are all excluded.  At most two entries of the list have a model to test, and when two
\* have one the run has no inference configuration (the model is health-checked
\* only); a run that tests two entries, or benchmarks a model, has at most two targets.
FleetConfigs ==
    {c \in {Config(urls, mods, <<s_embed>>, n, 1, conc, <<TRUE, FALSE>>) :
                urls \in SeqsUpTo(Hosts, MaxTargets), mods \in {<<>>, <<b_chat>>},
                n \in {0, 1}, conc \in (-1)..MaxConcurrency} :
        LET tested == Cardinality({k \in 1..Len(c.URLs) : c.URLs[k] = "h1" \/ Len(c.Models) > 0})
        IN  /\ tested <= 2 - c.NumConfigs
            /\ tested * (1 + c.NumConfigs) = 2 => Len(c.URLs) <= 2}

SerialTags == [h \in Hosts |-> <<a_embed, b_chat>>]
FleetTags == [h \in Hosts |-> IF h = "h1" THEN <<b_chat>> ELSE <<a_embed, A_EMBED>>]

NoBody == [lines |-> <<>>, errAt |-> 0]

\* The state after construction, with the three single-function harnesses idle.
InitRun(configs, backend, disks) ==
    /\ cfg \in configs
    /\ tags = backend
    /\ disk \in disks
    /\ runPc = "start"
    /\ runErr = Nil
    /\ closed = {}
    /\ panicked = FALSE
    /\ urlChan = <<>>
    /\ pc = [w \in Workers |-> "unstarted"]
    /\ url = [w \in Workers |-> 0]
    /\ models = [w \in Workers |-> <<>>]
    /\ mi = [w \in Workers |-> 0]
    /\ ci = [w \in Workers |-> 0]
    /\ i = [w \in Workers |-> 0]
    /\ lastErr = [w \in Workers |-> Nil]
    /\ res = [w \in Workers |-> EmptyResult]
    /\ err = [w \in Workers |-> Nil]
    /\ abort = [w \in Workers |-> ""]
    /\ ctxDone = [w \in Workers |-> FALSE]
    /\ mon = [w \in Workers |-> FALSE]
    /\ fired = [w \in Workers |-> ""]
    /\ reqs = [w \in Workers |-> 0]
    /\ sleeps = [w \in Workers |-> 0]
    /\ csv = <<>>
    /\ json = <<>>
    /\ wfail = {}
    /\ notices = <<>>
    /\ undiscovered = {}
    /\ called = {}
    /\ checked = {}

NoSample == [err |-> FALSE, size |-> 0, vram |-> 0, cpuOnlyAllowed |-> FALSE, gpuOnly |-> FALSE]

GuardIdle == gin = NoSample /\ gret = "none" /\ polls = <<>>

\* No placement query is under study.
NoQuery == [reply |-> "", models |-> <<>>, modelName |-> <<>>]

NoInfo == [done |-> FALSE, err |-> FALSE, size |-> 0, vram |-> 0]

PsIdle == psin = NoQuery /\ psret = NoInfo

\* No row of the summary and no merge is under study.
NoRow == [error |-> "", eval_count |-> 0, eval_duration |-> 0]

NoCell == [kind |-> "none", n |-> 0]

JqIdle == row = NoRow /\ shown = NoCell /\ results = <<>> /\ merged = <<>> /\ applied = 0

PathIdle ==
    /\ fs = {}
    /\ outFile = <<>>
    /\ pathPc = "idle"
    /\ csvPath = <<>>
    /\ jsonPath = <<>>
    /\ truncated = {}

SinksIdle ==
    /\ sinkPc = [w \in Workers |-> "idle"]
    /\ load = [w \in Workers |-> 0]
    /\ todo = [w \in Workers |-> 0]
    /\ csvMu = 0 /\ csvBuf = <<>> /\ csvFile = <<>>
    /\ jsonMu = 0 /\ jsonFile = <<>>

NoReply == [n |-> 0, at |-> "", kind |-> "", body |-> NoBody, pending |-> "", done |-> FALSE]

StreamIdle == sbody = NoBody /\ sret = "none" /\ seen = NoReply

\* The files take every write.
SoundDisk == {{}}

InitWith(configs, backend, disks) ==
    /\ InitRun(configs, backend, disks)
    /\ StreamIdle
    /\ GuardIdle
    /\ PsIdle
    /\ JqIdle
    /\ PathIdle
    /\ SinksIdle

\* The files take every write, or none once they are open.
Disks == {{}, {"csv", "json"}}

Init == InitWith(SerialConfigs, SerialTags, Disks)

(***************************************************************************)
(* Run                                                                     *)
(***************************************************************************)
\* A pool that ignores the number of targets.
concurrency_uncapped(c) == IF c.Concurrency <= 0 THEN 1 ELSE c.Concurrency

\* The number of workers Run starts.
concurrency(c) ==
    LET n == IF c.Concurrency <= 0 THEN 1 ELSE c.Concurrency
    IN  IF n > Len(c.URLs) THEN Len(c.URLs) ELSE n

\* A queue that holds its first target twice.
Fill_twice(c) ==
    IF Len(c.URLs) = 0 THEN <<>> ELSE <<1>> \o [k \in 1..Len(c.URLs) |-> k]

\* for _, url := range cfg.URLs { urlChan <- url }: the channel holds every entry of
\* the target list once, in the order of the list.
Fill(c) == [k \in 1..Len(c.URLs) |-> k]

\* Run up to the start of the workers: the output directory and the two writers are
\* set up (each can fail, and then Run returns the error), the channel is filled with
\* every URL and closed, and the workers are started.
Run_Start ==
    /\ ~panicked
    /\ runPc = "start"
    /\ \E setup \in {"ok", "mkdir", "csv", "json"} :
          IF setup = "ok"
          THEN /\ urlChan' = Fill(cfg)
               /\ pc' = [w \in Workers |-> IF w <= concurrency(cfg) THEN "range" ELSE "unstarted"]
               /\ runPc' = "wait"
               /\ UNCHANGED <<runErr, closed>>
          ELSE /\ runPc' = "returned"
               /\ runErr' = setup
               /\ closed' = IF setup = "json" THEN {"csv"} ELSE {}
               /\ UNCHANGED <<urlChan, pc>>
    /\ UNCHANGED <<cfg, tags, disk, panicked, loopVars, tryVars, outVars, unitVars>>

\* A Run that reports what its workers logged.
RunReturn_strict(logged) == IF logged = 0 THEN Nil ELSE "failed"

\* What Run returns after wg.Wait, however many errors the workers logged: nil.
RunReturn(logged) == Nil

\* A Run that does not wait for its workers.
wg_Wait_none(p) == TRUE

\* wg.Wait() returns when every worker that was started has run its deferred
\* wg.Done(), that is, has left its loop.
wg_Wait(p) == \A w \in Workers : p[w] \in {"unstarted", "exit"}

\* wg.Wait returns when every started worker is done; Run logs and returns nil, and
\* the deferred Close calls run.
Run_Wait ==
    /\ ~panicked
    /\ runPc = "wait"
    /\ wg_Wait(pc)
    /\ runPc' = "returned"
    /\ runErr' = RunReturn(Cardinality(wfail) + Cardinality(undiscovered))
    /\ closed' = {"csv", "json"}
    /\ UNCHANGED <<cfg, tags, disk, panicked, urlChan, pc, loopVars, tryVars, outVars, unitVars>>

(***************************************************************************)
(* The worker goroutine and runForURL                                      *)
(***************************************************************************)
\* A receive that leaves the URL in the channel.
Receive_peek(ch) == ch

\* What is left in the channel after a receive.
Receive(ch) == Tail(ch)

\* A scheduler that discovers the models whatever the configuration lists.
Explicit_never(c) == FALSE

\* len(cfg.Models) > 0: the run has an explicit model list.
Explicit(c) == Len(c.Models) > 0

\* for url := range urlChan: take the next URL, or leave when the channel is drained.
\* runForURL starts with the explicit model list when there is one.
Worker_Range(w) ==
    /\ ~panicked
    /\ pc[w] = "range"
    /\ IF urlChan = <<>>
       THEN /\ pc' = [pc EXCEPT ![w] = "exit"]
            /\ UNCHANGED <<urlChan, loopVars>>
       ELSE /\ urlChan' = Receive(urlChan)
            /\ url' = [url EXCEPT ![w] = Head(urlChan)]
            /\ IF Explicit(cfg)
               THEN /\ models' = [models EXCEPT ![w] = cfg.Models]
                    /\ mi' = [mi EXCEPT ![w] = 1]
                    /\ pc' = [pc EXCEPT ![w] = "model"]
               ELSE /\ pc' = [pc EXCEPT ![w] = "getModels"]
                    /\ UNCHANGED <<models, mi>>
            /\ UNCHANGED ci
    /\ UNCHANGED <<cfg, tags, disk, runPc, runErr, closed, panicked, tryVars, outVars, unitVars>>

\* A discovery failure that ends the worker.
DiscoveryFailed_exit == "exit"

\* Where the worker goes when GetModels failed: runForURL returns, back to the range loop.
DiscoveryFailed == "range"

\* A discovery whose order changes from one call to the next.
Names_unstable(listed) ==
    IF urlChan = <<>> THEN [k \in 1..Len(listed) |-> listed[Len(listed) + 1 - k]] ELSE listed

\* The names of a decoded /api/tags payload: one per listed model, in its order.
Names(listed) == [k \in 1..Len(listed) |-> listed[k]]

\* e.GetModels(url): a transport error, a status other than 200 or an undecodable
\* body is an error; otherwise the names in the order the host lists them.
runForURL_GetModels(w) ==
    /\ ~panicked
    /\ pc[w] = "getModels"
    /\ \E reply \in {"transport", "status", "decode", "ok"} :
          IF reply = "ok"
          THEN /\ models' = [models EXCEPT ![w] = Names(tags[cfg.URLs[url[w]]])]
               /\ mi' = [mi EXCEPT ![w] = 1]
               /\ pc' = [pc EXCEPT ![w] = "model"]
               /\ UNCHANGED url
               /\ UNCHANGED undiscovered
          ELSE /\ pc' = [pc EXCEPT ![w] = DiscoveryFailed]
               /\ url' = [url EXCEPT ![w] = 0]
               /\ undiscovered' = undiscovered \cup {url[w]}
               /\ UNCHANGED <<models, mi>>
    /\ UNCHANGED <<runVars, ci, tryVars, csv, json, wfail, notices, called, checked, unitVars>>

RECURSIVE firstFilter_exact(_, _, _)
\* A filter that compares without folding case.
firstFilter_exact(name, excl, k) ==
    IF k > Len(excl) THEN 0
    ELSE IF Contains(name, excl[k]) THEN k
    ELSE firstFilter_exact(name, excl, k + 1)

RECURSIVE firstFilter(_, _, _)
\* The loop over cfg.Exclude from entry k on: the index of the entry it breaks at, or 0.
firstFilter(name, excl, k) ==
    IF k > Len(excl) THEN 0
    ELSE IF Contains(ToLower(name), ToLower(excl[k])) THEN k
    ELSE firstFilter(name, excl, k + 1)

\* The top of the loop over models: leave when the list is done, skip an excluded
\* model with one log event, and otherwise start the health check (StreamInference
\* up to its retry loop: one context for the whole call, the monitor launched).
runForURL_Model(w) ==
    /\ ~panicked
    /\ pc[w] = "model"
    /\ IF mi[w] > Len(models[w])
       THEN /\ pc' = [pc EXCEPT ![w] = "range"]
            /\ url' = [url EXCEPT ![w] = 0]
            /\ models' = [models EXCEPT ![w] = <<>>]
            /\ mi' = [mi EXCEPT ![w] = 0]
            /\ ci' = [ci EXCEPT ![w] = 0]
            /\ err' = [err EXCEPT ![w] = Nil]
            /\ UNCHANGED <<i, lastErr, res, abort, ctxDone, mon, fired, reqs, sleeps, outVars>>
       ELSE LET name == models[w][mi[w]]
                k == firstFilter(name, cfg.Exclude, 1)
            IN  IF k # 0
                THEN /\ notices' = Append(notices, [url |-> url[w], mi |-> mi[w], model |-> name,
                                                     filter |-> cfg.Exclude[k]])
                     /\ mi' = [mi EXCEPT ![w] = @ + 1]
                     /\ UNCHANGED <<pc, url, models, ci, tryVars, csv, json, wfail,
                                    undiscovered, called, checked>>
                ELSE /\ checked' = checked \cup {<<url[w], mi[w]>>}
                     /\ i' = [i EXCEPT ![w] = 0]
                     /\ lastErr' = [lastErr EXCEPT ![w] = Nil]
                     /\ abort' = [abort EXCEPT ![w] = ""]
                     /\ ctxDone' = [ctxDone EXCEPT ![w] = FALSE]
                     /\ mon' = [mon EXCEPT ![w] = TRUE]
                     /\ fired' = [fired EXCEPT ![w] = ""]
                     /\ reqs' = [reqs EXCEPT ![w] = 0]
                     /\ sleeps' = [sleeps EXCEPT ![w] = 0]
                     /\ pc' = [pc EXCEPT ![w] = "sLoop"]
                     /\ UNCHANGED <<url, models, mi, ci, res, err, csv, json, wfail, notices, undiscovered, called>>
    /\ UNCHANGED <<runVars, unitVars>>

(***************************************************************************)
(* StreamInference (the health check)                                      *)
(*                                                                         *)
(* A request that is in flight, or a body that is being read, when the     *)
(* context is cancelled or expired fails: the transport returns an error.  *)
(***************************************************************************)
\* Bodies the health check is run against.
CheckBodies ==
    {[lines |-> <<"chunk", "done">>, errAt |-> 0],
     [lines |-> <<"garbage", "empty", "done">>, errAt |-> 0],
     [lines |-> <<"chunk">>, errAt |-> 0],
     [lines |-> <<"chunk", "done">>, errAt |-> 1],
     [lines |-> <<>>, errAt |-> 1]}

\* A retry loop that sleeps the delay before every try.
Delayed_always(n) == TRUE

\* if i > 0 { time.Sleep(e.Config.RetryDelay) }: try n + 1 is begun after the delay.
Delayed(n) == n > 0

\* A scheduler that benchmarks a model only when its health check passed.
AfterCheck_gated(e) == IF e = Nil THEN 1 ELSE cfg.NumConfigs + 1

\* The inference configuration runForURL goes on with when the health check has
\* returned e: the first of the list, whatever e is.
AfterCheck(e) == 1

\* StreamInference returns e to runForURL: the deferred cancel runs, the outcome is
\* logged, and the loop over the inference configurations starts.
StreamReturn(w, e) ==
    /\ err' = [err EXCEPT ![w] = e]
    /\ ctxDone' = [ctxDone EXCEPT ![w] = TRUE]
    /\ ci' = [ci EXCEPT ![w] = AfterCheck(e)]
    /\ pc' = [pc EXCEPT ![w] = "cfg"]
    /\ i' = [i EXCEPT ![w] = 0]
    /\ lastErr' = [lastErr EXCEPT ![w] = Nil]
    /\ abort' = [abort EXCEPT ![w] = ""]

\* The top of the retry loop: a pending abort is returned; otherwise the retry
\* delay is slept (not before the first try) and the request is sent.
StreamInference_Loop(w) ==
    /\ ~panicked
    /\ pc[w] = "sLoop"
    /\ IF i[w] < cfg.MaxRetries
       THEN IF abort[w] # ""
            THEN /\ StreamReturn(w, abort[w])
                 /\ UNCHANGED <<reqs, sleeps>>
            ELSE /\ reqs' = [reqs EXCEPT ![w] = @ + 1]
                 /\ sleeps' = [sleeps EXCEPT ![w] = IF Delayed(i[w]) THEN @ + 1 ELSE @]
                 /\ pc' = [pc EXCEPT ![w] = "sDo"]
                 /\ UNCHANGED <<err, ctxDone, ci, abort, i, lastErr>>
       ELSE /\ StreamReturn(w, lastErr[w])
            /\ UNCHANGED <<reqs, sleeps>>
    /\ UNCHANGED <<runVars, url, models, mi, res, mon, fired, outVars, unitVars>>

\* What e.Client.Do can return: an error whose text has "awaiting headers" (the
\* transport's header timeout), any other error, a response with a status other than
\* 200, a response with status 200.
DoReplies == {"awaiting headers", "transport", "status", "ok"}

\* A classification that takes every failed request for a load timeout.
Classify_loading(reply) == ErrHeaderTimeout

\* strings.Contains(err.Error(), "awaiting headers"): the class of a failed request.
Classify(reply) == IF reply = "awaiting headers" THEN ErrHeaderTimeout ELSE ErrNetwork

\* A request made with a context that is done fails with the context's error.
DoReply(w, reply) == ctxDone[w] => reply = "transport"

\* e.Client.Do(req) returns: an error (a pending abort is returned at once, anything
\* else is classified and retried), or a response, of whatever status, whose body is
\* then streamed.
StreamDo(w, reply) ==
    IF reply \in {"status", "ok"}
    THEN /\ pc' = [pc EXCEPT ![w] = "sBody"]
         /\ UNCHANGED <<err, ctxDone, ci, abort, i, lastErr>>
    ELSE IF abort[w] # ""
    THEN StreamReturn(w, abort[w])
    ELSE /\ lastErr' = [lastErr EXCEPT ![w] = Classify(reply)]
         /\ i' = [i EXCEPT ![w] = @ + 1]
         /\ pc' = [pc EXCEPT ![w] = "sLoop"]
         /\ UNCHANGED <<err, ctxDone, ci, abort>>

StreamInference_Do(w) ==
    /\ ~panicked
    /\ pc[w] = "sDo"
    /\ \E reply \in DoReplies : DoReply(w, reply) /\ StreamDo(w, reply)
    /\ UNCHANGED <<runVars, url, models, mi, res, mon, fired, reqs, sleeps, outVars, unitVars>>

\* A body that is read with a context that is done ends in a read error.
BodyReply(w, body) == ctxDone[w] => (body.errAt # 0 /\ ~processStream(body))

\* processStream(resp.Body) returns: nil is returned on success, and otherwise the
\* stream counts as incomplete and the loop goes on.
StreamBody(w, body) ==
    IF processStream(body)
    THEN StreamReturn(w, Nil)
    ELSE /\ lastErr' = [lastErr EXCEPT ![w] = ErrStreamIncomplete]
         /\ i' = [i EXCEPT ![w] = @ + 1]
         /\ pc' = [pc EXCEPT ![w] = "sLoop"]
         /\ UNCHANGED <<err, ctxDone, ci, abort>>

StreamInference_Body(w) ==
    /\ ~panicked
    /\ pc[w] = "sBody"
    /\ \E body \in CheckBodies : BodyReply(w, body) /\ StreamBody(w, body)
    /\ UNCHANGED <<runVars, url, models, mi, res, mon, fired, reqs, sleeps, outVars, unitVars>>

(***************************************************************************)
(* Inference (one benchmark) and the rest of runForURL                     *)
(***************************************************************************)
\* The top of the loop over cfg.InferConfigs: the next model when the list is done,
\* and otherwise the call of Inference up to its retry loop.
runForURL_Config(w) ==
    /\ ~panicked
    /\ pc[w] = "cfg"
    /\ IF ci[w] > cfg.NumConfigs
       THEN /\ mi' = [mi EXCEPT ![w] = @ + 1]
            /\ pc' = [pc EXCEPT ![w] = "model"]
            /\ err' = [err EXCEPT ![w] = Nil]
            /\ fired' = [fired EXCEPT ![w] = ""]
            /\ reqs' = [reqs EXCEPT ![w] = 0]
            /\ sleeps' = [sleeps EXCEPT ![w] = 0]
            /\ UNCHANGED <<i, lastErr, res, abort, ctxDone, mon, called>>
       ELSE /\ called' = called \cup {<<url[w], mi[w], ci[w]>>}
            /\ res' = [res EXCEPT ![w] =
                          [EmptyResult EXCEPT !.id = <<url[w], mi[w], ci[w]>>,
                                              !.Model = models[w][mi[w]],
                                              !.URL = cfg.URLs[url[w]],
                                              !.Config = ci[w]]]
            /\ i' = [i EXCEPT ![w] = 0]
            /\ lastErr' = [lastErr EXCEPT ![w] = Nil]
            /\ fired' = [fired EXCEPT ![w] = ""]
            /\ reqs' = [reqs EXCEPT ![w] = 0]
            /\ sleeps' = [sleeps EXCEPT ![w] = 0]
            /\ pc' = [pc EXCEPT ![w] = "iLoop"]
            /\ err' = [err EXCEPT ![w] = Nil]
            /\ UNCHANGED <<mi, abort, ctxDone, mon>>
    /\ UNCHANGED <<runVars, url, models, ci, csv, json, wfail, notices, undiscovered, checked, unitVars>>

\* The try ends without a result: its deferred cancel runs and the loop goes on.
TryFailed(w, e) ==
    /\ lastErr' = [lastErr EXCEPT ![w] = e]
    /\ i' = [i EXCEPT ![w] = @ + 1]
    /\ ctxDone' = [ctxDone EXCEPT ![w] = TRUE]
    /\ abort' = [abort EXCEPT ![w] = ""]
    /\ pc' = [pc EXCEPT ![w] = "iLoop"]

\* Inference returns r and e to runForURL; the deferred cancel of the try runs.
InferenceReturn(w, r, e, next) ==
    /\ res' = [res EXCEPT ![w] = r]
    /\ err' = [err EXCEPT ![w] = e]
    /\ ctxDone' = [ctxDone EXCEPT ![w] = TRUE]
    /\ abort' = [abort EXCEPT ![w] = ""]
    /\ i' = [i EXCEPT ![w] = 0]
    /\ lastErr' = [lastErr EXCEPT ![w] = Nil]
    /\ pc' = [pc EXCEPT ![w] = next]

\* The top of the retry loop.  A further try sleeps the retry delay (not before the
\* first), makes a fresh context and abort channel, launches a monitor and sends the
\* request.  After the last try res.Error = lastErr.Error() is evaluated: with a nil
\* lastErr (no try was made) that is a nil dereference, and the goroutine panics.
Inference_Loop(w) ==
    /\ ~panicked
    /\ pc[w] = "iLoop"
    /\ IF i[w] < cfg.MaxRetries
       THEN /\ abort' = [abort EXCEPT ![w] = ""]
            /\ ctxDone' = [ctxDone EXCEPT ![w] = FALSE]
            /\ mon' = [mon EXCEPT ![w] = TRUE]
            /\ reqs' = [reqs EXCEPT ![w] = @ + 1]
            /\ sleeps' = [sleeps EXCEPT ![w] = IF Delayed(i[w]) THEN @ + 1 ELSE @]
            /\ pc' = [pc EXCEPT ![w] = "iDo"]
            /\ UNCHANGED <<i, lastErr, res, err, panicked>>
       ELSE IF lastErr[w] = Nil
       THEN /\ panicked' = TRUE
            /\ UNCHANGED <<pc, i, lastErr, res, err, abort, ctxDone, mon, reqs, sleeps>>
       ELSE /\ InferenceReturn(w, [res[w] EXCEPT !.Error = lastErr[w]], lastErr[w], "failed")
            /\ UNCHANGED <<mon, reqs, sleeps, panicked>>
    /\ UNCHANGED <<cfg, tags, disk, runPc, runErr, closed, urlChan, loopVars, fired,
                   outVars, unitVars>>

\* e.Client.Do(req) returns.  On an error a pending abort ends Inference with an
\* empty Result and the abort reason; any other error is classified.  A status other
\* than 200 is a server error.  Otherwise the body is read next.
InferenceDo(w, reply) ==
    IF reply = "ok"
    THEN /\ pc' = [pc EXCEPT ![w] = "iBody"]
         /\ UNCHANGED <<i, lastErr, res, err, abort, ctxDone>>
    ELSE IF reply = "status"
    THEN /\ TryFailed(w, ErrServer)
         /\ UNCHANGED <<res, err>>
    ELSE IF abort[w] # ""
    THEN InferenceReturn(w, [EmptyResult EXCEPT !.id = res[w].id], abort[w], "failed")
    ELSE /\ TryFailed(w, Classify(reply))
         /\ UNCHANGED <<res, err>>

Inference_Do(w) ==
    /\ ~panicked
    /\ pc[w] = "iDo"
    /\ \E reply \in DoReplies : DoReply(w, reply) /\ InferenceDo(w, reply)
    /\ UNCHANGED <<runVars, loopVars, mon, fired, reqs, sleeps, outVars, unitVars>>

\* io.ReadAll and json.Unmarshal of the body of a 200 response: a read error, an
\* undecodable body and an API-side error field fail the try; otherwise Inference
\* returns the populated Result.
\* What reading and decoding the body of a 200 response can come to.
ReadReplies == {"read error", "invalid JSON", "API error", "ok"}

\* A body that is read with a context that is done ends in a read error.
ReadReply(w, reply) == ctxDone[w] => reply = "read error"

\* An engine that counts the generated tokens in the response text.
TokensGenerated_split(resData) == SplitCount(resData.Response)

\* resData.TokensGenerated = resData.EvalCount
TokensGenerated(resData) == resData.EvalCount

\* The Result of a try that finished: the fields of the decoded body, the overall
\* duration and the two token counts.
Finished(r, data) ==
    LET resData == [EmptyResult EXCEPT
                       !.id = r.id, !.Model = r.Model, !.URL = r.URL, !.Config = r.Config,
                       !.Response = data.Response,
                       !.TotalDuration = data.TotalDuration,
                       !.LoadDuration = data.LoadDuration,
                       !.PromptEvalCount = data.PromptEvalCount,
                       !.PromptEvalDuration = data.PromptEvalDuration,
                       !.EvalCount = data.EvalCount,
                       !.EvalDuration = data.EvalDuration]
    IN  [resData EXCEPT !.Duration = 1,
                        !.TokensGenerated = TokensGenerated(resData),
                        !.TokensReturned = SplitCount(resData.Response)]

InferenceBody(w, reply, data) ==
    IF reply = "ok"
    THEN InferenceReturn(w, Finished(res[w], data), Nil, "succeeded")
    ELSE /\ TryFailed(w, CASE reply = "read error" -> ErrReadBody
                            [] reply = "invalid JSON" -> ErrInvalidJSON
                            [] reply = "API error" -> ErrAPI)
         /\ UNCHANGED <<res, err>>

Inference_Body(w) ==
    /\ ~panicked
    /\ pc[w] = "iBody"
    /\ \E reply \in ReadReplies, data \in ServerData :
          ReadReply(w, reply) /\ InferenceBody(w, reply, data)
    /\ UNCHANGED <<runVars, loopVars, mon, fired, reqs, sleeps, outVars, unitVars>>

\* A scheduler for which a benchmark without a placement sample is a failure.
WithPlacement_required(r, sample) ==
    IF ~sample.err /\ sample.size > 0
    THEN [r EXCEPT !.MemoryUsage = sample.size, !.VRAMUsage = sample.vram,
                   !.VRAMPercentage = (sample.vram * 100) \div sample.size]
    ELSE [r EXCEPT !.Error = "placement unknown"]

\* if err == nil && size > 0 { res.MemoryUsage = size; ... }: res with the placement
\* figures of one /api/ps sample.
WithPlacement(r, sample) ==
    IF ~sample.err /\ sample.size > 0
    THEN [r EXCEPT !.MemoryUsage = sample.size, !.VRAMUsage = sample.vram,
                   !.VRAMPercentage = (sample.vram * 100) \div sample.size]
    ELSE r

\* A scheduler that times a failed benchmark.
Partial_timed(r, e) == [r EXCEPT !.Error = e, !.Duration = 1]

\* res.Error = err.Error(): the Result of a failed call, as Inference returned it,
\* with the error text.
Partial(r, e) == [r EXCEPT !.Error = e]

\* Inference returned an error: res.Error is set and placement is queried once.
runForURL_Failed(w) ==
    /\ ~panicked
    /\ pc[w] = "failed"
    /\ \E sample \in PsSamples :
          res' = [res EXCEPT ![w] = WithPlacement(Partial(res[w], err[w]), sample)]
    /\ pc' = [pc EXCEPT ![w] = "csv"]
    /\ UNCHANGED <<runVars, loopVars, i, lastErr, err, abort, ctxDone, mon, fired, reqs, sleeps,
                   outVars, unitVars>>

\* Inference returned a Result: placement is queried once.
runForURL_Succeeded(w) ==
    /\ ~panicked
    /\ pc[w] = "succeeded"
    /\ \E sample \in PsSamples : res' = [res EXCEPT ![w] = WithPlacement(res[w], sample)]
    /\ pc' = [pc EXCEPT ![w] = "csv"]
    /\ UNCHANGED <<runVars, loopVars, i, lastErr, err, abort, ctxDone, mon, fired, reqs, sleeps,
                   outVars, unitVars>>

\* csvWriter.Write(res), as one step: the whole of it runs under the writer's lock.
\* The write or the flush can fail; runForURL logs the error and goes on.
CSVWriter_Write(w) ==
    /\ ~panicked
    /\ pc[w] = "csv"
    /\ csv' = Append(csv, [id |-> res[w].id, failed |-> res[w].Error # ""])
    /\ wfail' = wfail \cup (disk \cap {"csv"})
    /\ pc' = [pc EXCEPT ![w] = "json"]
    /\ UNCHANGED <<runVars, loopVars, tryVars, json, notices, undiscovered, called, checked,
                   unitVars>>

\* A scheduler that goes on with the next configuration after a failure.
AfterFailure_continue(c, n) == c + 1

\* The configuration index after a failed benchmark: break leaves the loop.
AfterFailure(c, n) == n + 1

\* jsonWriter.Write(res), as one step under the writer's lock; an error is logged.
\* Then break after a failure, and the pacing delay and the next configuration after
\* a success.
JSONWriter_Write(w) ==
    /\ ~panicked
    /\ pc[w] = "json"
    /\ json' = Append(json, [id |-> res[w].id, failed |-> res[w].Error # ""])
    /\ wfail' = wfail \cup (disk \cap {"json"})
    /\ ci' = [ci EXCEPT ![w] = IF err[w] # Nil THEN AfterFailure(@, cfg.NumConfigs) ELSE @ + 1]
    /\ pc' = [pc EXCEPT ![w] = "cfg"]
    /\ res' = [res EXCEPT ![w] = EmptyResult]
    /\ err' = [err EXCEPT ![w] = Nil]
    /\ fired' = [fired EXCEPT ![w] = ""]
    /\ reqs' = [reqs EXCEPT ![w] = 0]
    /\ sleeps' = [sleeps EXCEPT ![w] = 0]
    /\ UNCHANGED <<runVars, url, models, mi, i, lastErr, abort, ctxDone, mon,
                   csv, notices, undiscovered, called, checked, unitVars>>

(***************************************************************************)
(* monitorLoading and the deadline of the context                          *)
(***************************************************************************)
\* The request path of worker w is inside a try: its context and abort channel are
\* the ones its monitor holds.
InTry(w) == pc[w] \in {"sLoop", "sDo", "sBody", "iDo", "iBody"}

\* A monitor that goes on polling after it has offered an abort reason.
Returns_never(verdict) == FALSE

\* The monitor returns after the tick: it does when the tick found a violation.
Returns(verdict) == verdict # Nil

\* A monitor that gives up at the first poll that fails.
Judge_strict(sample, cpuOnlyAllowed, gpuOnly) ==
    IF sample.err THEN ErrAbortCPU
    ELSE GuardVerdict(sample.size, sample.vram, cpuOnlyAllowed, gpuOnly)

\* What a tick makes of its poll: a poll that failed is skipped (continue), and
\* otherwise the sample is judged.
Judge(sample, cpuOnlyAllowed, gpuOnly) ==
    IF sample.err THEN Nil
    ELSE GuardVerdict(sample.size, sample.vram, cpuOnlyAllowed, gpuOnly)

\* One tick: /api/ps is polled; a failed poll and a model that is not resident are
\* skipped; on a violation the reason is offered to the abort channel without
\* blocking, cancel is called when it was taken, and the monitor returns.  The
\* select takes a tick that is due also when the context is already done; the
\* channel of a try that is over is read by nobody.
Tick(w, sample) ==
    LET verdict == Judge(sample, cfg.CPUOnlyAllowed, cfg.GPUOnly)
    IN  /\ mon' = [mon EXCEPT ![w] = ~Returns(verdict)]
        /\ IF verdict # Nil /\ abort[w] = "" /\ InTry(w)
           THEN /\ abort' = [abort EXCEPT ![w] = verdict]
                /\ ctxDone' = [ctxDone EXCEPT ![w] = TRUE]
                /\ fired' = [fired EXCEPT ![w] = verdict]
           ELSE UNCHANGED <<abort, ctxDone, fired>>

monitorLoading_Tick(w) ==
    /\ ~panicked
    /\ mon[w]
    /\ \E sample \in PsSamples : Tick(w, sample)
    /\ UNCHANGED <<runVars, pc, loopVars, i, lastErr, res, err, reqs, sleeps, outVars, unitVars>>

\* A monitor that is started on a context of its own.
Done_background(w) == FALSE

\* ctx.Done() of the context monitorLoading was given is closed: the context is
\* timeoutCtx, the one the request of the try is made with.
Done(w) == ctxDone[w]

\* <-ctx.Done(): the monitor returns.
monitorLoading_Done(w) ==
    /\ ~panicked
    /\ mon[w]
    /\ Done(w)
    /\ mon' = [mon EXCEPT ![w] = FALSE]
    /\ UNCHANGED <<runVars, pc, loopVars, i, lastErr, res, err, abort, ctxDone, fired, reqs, sleeps,
                   outVars, unitVars>>

\* The deadline LoadTimeout + StreamTimeout of the context passes.
Deadline(w) ==
    /\ ~panicked
    /\ InTry(w)
    /\ ~ctxDone[w]
    /\ ctxDone' = [ctxDone EXCEPT ![w] = TRUE]
    /\ UNCHANGED <<runVars, pc, loopVars, i, lastErr, res, err, abort, mon, fired, reqs, sleeps,
                   outVars, unitVars>>

Next ==
    \/ Run_Start
    \/ Run_Wait
    \/ \E w \in Workers : Worker_Range(w)
    \/ \E w \in Workers : runForURL_GetModels(w)
    \/ \E w \in Workers : runForURL_Model(w)
    \/ \E w \in Workers : StreamInference_Loop(w)
    \/ \E w \in Workers : StreamInference_Do(w)
    \/ \E w \in Workers : StreamInference_Body(w)
    \/ \E w \in Workers : runForURL_Config(w)
    \/ \E w \in Workers : Inference_Loop(w)
    \/ \E w \in Workers : Inference_Do(w)
    \/ \E w \in Workers : Inference_Body(w)
    \/ \E w \in Workers : runForURL_Failed(w)
    \/ \E w \in Workers : runForURL_Succeeded(w)
    \/ \E w \in Workers : CSVWriter_Write(w)
    \/ \E w \in Workers : JSONWriter_Write(w)
    \/ \E w \in Workers : monitorLoading_Tick(w)
    \/ \E w \in Workers : monitorLoading_Done(w)
    \/ \E w \in Workers : Deadline(w)

Spec == Init /\ [][Next]_vars

InitFleet == InitWith(FleetConfigs, FleetTags, SoundDisk)

SpecFleet == InitFleet /\ [][Next]_vars

(***************************************************************************)
(* processStream on its own, over every body of at most MaxLines lines.    *)
(***************************************************************************)
IdleConfig == Config(<<>>, <<>>, <<>>, 0, 1, 1, <<TRUE, FALSE>>)

InitStream ==
    /\ InitRun({IdleConfig}, SerialTags, SoundDisk)
    /\ sbody \in Bodies
    /\ sret = "none"
    /\ seen = NoReply
    /\ GuardIdle
    /\ PsIdle
    /\ JqIdle
    /\ PathIdle
    /\ SinksIdle

processStream_Call ==
    /\ sret = "none"
    /\ sret' = IF processStream(sbody) THEN "true" ELSE "false"
    /\ UNCHANGED <<runVars, pc, loopVars, tryVars, outVars, sbody, seen, guardVars, psVars, jqVars, pathVars, sinkVars>>

SpecStream == InitStream /\ [][processStream_Call]_vars

(***************************************************************************)
(* The guard of monitorLoading on its own: one tick, over every answer of  *)
(* /api/ps with sizes up to MaxBytes and every setting of the two flags.   *)
(***************************************************************************)
GuardInputs ==
    [err : BOOLEAN, size : 0..MaxBytes, vram : 0..MaxBytes,
     cpuOnlyAllowed : BOOLEAN, gpuOnly : BOOLEAN]

InitGuard ==
    /\ InitRun({IdleConfig}, SerialTags, SoundDisk)
    /\ StreamIdle
    /\ gin \in GuardInputs
    /\ gret = "none"
    /\ polls = <<>>
    /\ PsIdle
    /\ JqIdle
    /\ PathIdle
    /\ SinksIdle

\* The body of one tick: a failed poll is skipped, and otherwise the sample is judged.
monitorLoading_Guard ==
    /\ gret = "none"
    /\ gret' = IF gin.err THEN Nil
               ELSE GuardVerdict(gin.size, gin.vram, gin.cpuOnlyAllowed, gin.gpuOnly)
    /\ UNCHANGED <<runVars, pc, loopVars, tryVars, outVars, streamVars, gin, polls, psVars, jqVars,
                   pathVars, sinkVars>>

SpecGuard == InitGuard /\ [][monitorLoading_Guard]_vars

(***************************************************************************)
(* The monitor of one try on its own.  Worker 1 has sent the request of    *)
(* the first try of a benchmark and its monitor is running; the monitor    *)
(* polls at most MaxPolls times, and the samples it gets are kept.  The    *)
(* try ends by its request returning, by the deadline or by an abort.      *)
(***************************************************************************)
MonitorConfigs ==
    {Config(<<"h1">>, <<>>, <<>>, 1, 1, 1, <<g, c>>) : g \in BOOLEAN, c \in BOOLEAN}

InitMonitor ==
    /\ cfg \in MonitorConfigs
    /\ tags = SerialTags
    /\ disk = {}
    /\ runPc = "wait"
    /\ runErr = Nil
    /\ closed = {}
    /\ panicked = FALSE
    /\ urlChan = <<>>
    /\ pc = [w \in Workers |-> IF w = 1 THEN "iDo" ELSE "unstarted"]
    /\ url = [w \in Workers |-> IF w = 1 THEN 1 ELSE 0]
    /\ models = [w \in Workers |-> IF w = 1 THEN SerialTags["h1"] ELSE <<>>]
    /\ mi = [w \in Workers |-> IF w = 1 THEN 1 ELSE 0]
    /\ ci = [w \in Workers |-> IF w = 1 THEN 1 ELSE 0]
    /\ i = [w \in Workers |-> 0]
    /\ lastErr = [w \in Workers |-> Nil]
    /\ res = [w \in Workers |->
                IF w = 1 THEN [EmptyResult EXCEPT !.id = <<1, 1, 1>>, !.Model = SerialTags["h1"][1],
                                                  !.URL = "h1", !.Config = 1]
                ELSE EmptyResult]
    /\ err = [w \in Workers |-> Nil]
    /\ abort = [w \in Workers |-> ""]
    /\ ctxDone = [w \in Workers |-> FALSE]
    /\ mon = [w \in Workers |-> w = 1]
    /\ fired = [w \in Workers |-> ""]
    /\ reqs = [w \in Workers |-> IF w = 1 THEN 1 ELSE 0]
    /\ sleeps = [w \in Workers |-> 0]
    /\ csv = <<>>
    /\ json = <<>>
    /\ wfail = {}
    /\ notices = <<>>
    /\ undiscovered = {}
    /\ called = {<<1, 1, 1>>}
    /\ checked = {<<1, 1>>}
    /\ StreamIdle
    /\ GuardIdle
    /\ PsIdle
    /\ JqIdle
    /\ PathIdle
    /\ SinksIdle

\* One tick of the monitor, with the sample kept.
monitorLoading_Poll(w) ==
    /\ mon[w]
    /\ Len(polls) < MaxPolls
    /\ \E sample \in PsSamples :
          /\ Tick(w, sample)
          /\ polls' = Append(polls, [sample |-> sample, late |-> ctxDone[w]])
    /\ UNCHANGED <<runVars, pc, loopVars, i, lastErr, res, err, reqs, sleeps, outVars,
                   streamVars, gin, gret, psVars, jqVars, pathVars, sinkVars>>

NextMonitor ==
    \/ \E w \in Workers : monitorLoading_Poll(w)
    \/ \E w \in Workers : monitorLoading_Done(w)
    \/ \E w \in Workers : Deadline(w)
    \/ \E w \in Workers : Inference_Do(w)
    \/ \E w \in Workers : Inference_Body(w)

SpecMonitor == InitMonitor /\ [][NextMonitor]_vars

\* The monitor goroutine is scheduled: when its context is done, its select takes
\* the ctx.Done case sooner or later.
SpecMonitorFair == SpecMonitor /\ \A w \in Workers : WF_vars(monitorLoading_Done(w))

(***************************************************************************)
(* The requests of one model on their own: worker 1 makes the health check *)
(* and then the first benchmark of a model, beside the monitor, and what   *)
(* each request came to is kept until the next one.                        *)
(***************************************************************************)
TryConfigs ==
    {Config(<<"h1">>, <<>>, <<>>, 1, r, 1, g) : r \in 1..MaxRetriesBound, g \in GuardSettings}

InitTry ==
    /\ cfg \in TryConfigs
    /\ tags = SerialTags
    /\ disk = {}
    /\ runPc = "wait"
    /\ runErr = Nil
    /\ closed = {}
    /\ panicked = FALSE
    /\ urlChan = <<>>
    /\ pc = [w \in Workers |-> IF w = 1 THEN "sLoop" ELSE "unstarted"]
    /\ url = [w \in Workers |-> IF w = 1 THEN 1 ELSE 0]
    /\ models = [w \in Workers |-> IF w = 1 THEN SerialTags["h1"] ELSE <<>>]
    /\ mi = [w \in Workers |-> IF w = 1 THEN 1 ELSE 0]
    /\ ci = [w \in Workers |-> 0]
    /\ i = [w \in Workers |-> 0]
    /\ lastErr = [w \in Workers |-> Nil]
    /\ res = [w \in Workers |-> EmptyResult]
    /\ err = [w \in Workers |-> Nil]
    /\ abort = [w \in Workers |-> ""]
    /\ ctxDone = [w \in Workers |-> FALSE]
    /\ mon = [w \in Workers |-> w = 1]
    /\ fired = [w \in Workers |-> ""]
    /\ reqs = [w \in Workers |-> 0]
    /\ sleeps = [w \in Workers |-> 0]
    /\ csv = <<>>
    /\ json = <<>>
    /\ wfail = {}
    /\ notices = <<>>
    /\ undiscovered = {}
    /\ called = {}
    /\ checked = {<<1, 1>>}
    /\ StreamIdle
    /\ GuardIdle
    /\ PsIdle
    /\ JqIdle
    /\ PathIdle
    /\ SinksIdle

\* What the request path of worker w gets now.
Seen(w, kind, body) ==
    [n |-> 1 - seen.n, at |-> pc[w], kind |-> kind, body |-> body,
     pending |-> abort[w], done |-> ctxDone[w]]

StreamInference_Reply(w) ==
    /\ pc[w] = "sDo"
    /\ \E reply \in DoReplies :
          /\ DoReply(w, reply)
          /\ StreamDo(w, reply)
          /\ seen' = Seen(w, reply, NoBody)
    /\ UNCHANGED <<runVars, url, models, mi, res, mon, fired, reqs, sleeps, outVars,
                   sbody, sret, guardVars, psVars, jqVars, pathVars, sinkVars>>

StreamInference_Stream(w) ==
    /\ pc[w] = "sBody"
    /\ \E body \in CheckBodies :
          /\ BodyReply(w, body)
          /\ StreamBody(w, body)
          /\ seen' = Seen(w, "stream", body)
    /\ UNCHANGED <<runVars, url, models, mi, res, mon, fired, reqs, sleeps, outVars,
                   sbody, sret, guardVars, psVars, jqVars, pathVars, sinkVars>>

Inference_Reply(w) ==
    /\ pc[w] = "iDo"
    /\ \E reply \in DoReplies :
          /\ DoReply(w, reply)
          /\ InferenceDo(w, reply)
          /\ seen' = Seen(w, reply, NoBody)
    /\ UNCHANGED <<runVars, loopVars, mon, fired, reqs, sleeps, outVars,
                   sbody, sret, guardVars, psVars, jqVars, pathVars, sinkVars>>

Inference_Read(w) ==
    /\ pc[w] = "iBody"
    /\ \E reply \in ReadReplies, data \in ServerData :
          /\ ReadReply(w, reply)
          /\ InferenceBody(w, reply, data)
          /\ seen' = Seen(w, reply, NoBody)
    /\ UNCHANGED <<runVars, loopVars, mon, fired, reqs, sleeps, outVars,
                   sbody, sret, guardVars, psVars, jqVars, pathVars, sinkVars>>

NextTry ==
    \/ \E w \in Workers : StreamInference_Loop(w)
    \/ \E w \in Workers : StreamInference_Reply(w)
    \/ \E w \in Workers : StreamInference_Stream(w)
    \/ \E w \in Workers : runForURL_Config(w)
    \/ \E w \in Workers : Inference_Loop(w)
    \/ \E w \in Workers : Inference_Reply(w)
    \/ \E w \in Workers : Inference_Read(w)
    \/ \E w \in Workers : monitorLoading_Tick(w)
    \/ \E w \in Workers : monitorLoading_Done(w)
    \/ \E w \in Workers : Deadline(w)

SpecTry == InitTry /\ [][NextTry]_vars

(***************************************************************************)
(* The two writers on their own: every worker writes its load of Results,  *)
(* each to the CSV writer and then to the JSON writer, as runForURL does.  *)
(* Here Write is taken apart: Lock, the fields of the record going into    *)
(* the buffer of the csv.Writer, Flush, and the deferred Unlock.  A record *)
(* has two fields; field <<w, n, k>> is field k of the n-th Result of      *)
(* worker w, and <<w, n>> is the JSON line of that Result.                 *)
(***************************************************************************)
RECURSIVE Total(_, _)
Total(t, n) == IF n = 0 THEN 0 ELSE t[n] + Total(t, n - 1)

\* The numbers of Results the workers have to write: at most MaxConfigs each, and
\* at most twice MaxConfigs between them.
Loads == {t \in [Workers -> 0..MaxConfigs] : Total(t, MaxConcurrency) <= 2 * MaxConfigs}

InitSinks ==
    /\ InitRun({IdleConfig}, SerialTags, SoundDisk)
    /\ StreamIdle
    /\ GuardIdle
    /\ PsIdle
    /\ JqIdle
    /\ PathIdle
    /\ load \in Loads
    /\ todo = load
    /\ sinkPc = [w \in Workers |-> IF load[w] > 0 THEN "csv" ELSE "done"]
    /\ csvMu = 0 /\ csvBuf = <<>> /\ csvFile = <<>>
    /\ jsonMu = 0 /\ jsonFile = <<>>

\* A mutex that is handed to every caller.
Free_always(mu) == TRUE

\* sync.Mutex: Lock returns only when no goroutine holds the mutex.
Free(mu) == mu = 0

\* cw.mu.Lock()
CSVWriter_Lock(w) ==
    /\ sinkPc[w] = "csv"
    /\ Free(csvMu)
    /\ csvMu' = w
    /\ sinkPc' = [sinkPc EXCEPT ![w] = "field1"]
    /\ UNCHANGED <<runVars, pc, loopVars, tryVars, outVars, streamVars, guardVars, psVars, jqVars, pathVars,
                   load, todo, csvBuf, csvFile, jsonMu, jsonFile>>

\* cw.writer.Write(record): the fields go into the buffer one after another.
CSVWriter_Field(w) ==
    /\ sinkPc[w] \in {"field1", "field2"}
    /\ csvBuf' = Append(csvBuf, <<w, todo[w], IF sinkPc[w] = "field1" THEN 1 ELSE 2>>)
    /\ sinkPc' = [sinkPc EXCEPT ![w] = IF @ = "field1" THEN "field2" ELSE "flush"]
    /\ UNCHANGED <<runVars, pc, loopVars, tryVars, outVars, streamVars, guardVars, psVars, jqVars, pathVars,
                   load, todo, csvMu, csvFile, jsonMu, jsonFile>>

\* cw.writer.Flush(): the buffer goes to the file; Write returns and the deferred
\* Unlock runs.  runForURL calls jsonWriter.Write next.
CSVWriter_Flush(w) ==
    /\ sinkPc[w] = "flush"
    /\ csvFile' = csvFile \o csvBuf
    /\ csvBuf' = <<>>
    /\ csvMu' = 0
    /\ sinkPc' = [sinkPc EXCEPT ![w] = "json"]
    /\ UNCHANGED <<runVars, pc, loopVars, tryVars, outVars, streamVars, guardVars, psVars, jqVars, pathVars,
                   load, todo, jsonMu, jsonFile>>

\* jw.mu.Lock()
JSONWriter_Lock(w) ==
    /\ sinkPc[w] = "json"
    /\ Free(jsonMu)
    /\ jsonMu' = w
    /\ sinkPc' = [sinkPc EXCEPT ![w] = "encode"]
    /\ UNCHANGED <<runVars, pc, loopVars, tryVars, outVars, streamVars, guardVars, psVars, jqVars, pathVars,
                   load, todo, csvMu, csvBuf, csvFile, jsonFile>>

\* jw.encoder.Encode(r): the line is written to the file; Write returns and the
\* deferred Unlock runs.  The worker goes on with its next Result, if it has one.
JSONWriter_Encode(w) ==
    /\ sinkPc[w] = "encode"
    /\ jsonFile' = Append(jsonFile, <<w, todo[w]>>)
    /\ jsonMu' = 0
    /\ todo' = [todo EXCEPT ![w] = @ - 1]
    /\ sinkPc' = [sinkPc EXCEPT ![w] = IF todo[w] > 1 THEN "csv" ELSE "done"]
    /\ UNCHANGED <<runVars, pc, loopVars, tryVars, outVars, streamVars, guardVars, psVars, jqVars, pathVars,
                   load, csvMu, csvBuf, csvFile>>

NextSinks ==
    \/ \E w \in Workers : CSVWriter_Lock(w)
    \/ \E w \in Workers : CSVWriter_Field(w)
    \/ \E w \in Workers : CSVWriter_Flush(w)
    \/ \E w \in Workers : JSONWriter_Lock(w)
    \/ \E w \in Workers : JSONWriter_Encode(w)

SpecSinks == InitSinks /\ [][NextSinks]_vars

(***************************************************************************)
(* nextAvailablePath and the opening of the two output files on their own. *)
(* A path is the file name followed by the numeric suffixes appended to    *)
(* it: <<"model_results.json", 1>> is model_results.json.1.  The output    *)
(* directory holds any of the first MaxFiles versions of the two names.    *)
(***************************************************************************)
JSONName == <<"model_results.json">>

\* cfg.OutputFile: a name of its own, the name of the JSON stream, or a version of it.
OutFiles == {<<"model_results.csv">>, JSONName, Append(JSONName, 1)}

Versions(name) == {name} \cup {Append(name, k) : k \in 1..MaxFiles}

InitPath ==
    /\ InitRun({IdleConfig}, SerialTags, SoundDisk)
    /\ StreamIdle
    /\ GuardIdle
    /\ PsIdle
    /\ JqIdle
    /\ SinksIdle
    /\ fs \in SUBSET (Versions(<<"model_results.csv">>) \cup Versions(JSONName))
    /\ outFile \in OutFiles
    /\ pathPc = "csv"
    /\ csvPath = <<>>
    /\ jsonPath = <<>>
    /\ truncated = {}

RECURSIVE nextVersion(_, _, _)
\* for i := 1; ; i++: the first path.i, from i = k on, that os.Stat does not find.
nextVersion(path, k, files) ==
    IF Append(path, k) \notin files THEN Append(path, k)
    ELSE nextVersion(path, k + 1, files)

\* A versioning that tries the suffix .1 only.
nextAvailablePath_once(path, files) ==
    IF path \notin files THEN path ELSE Append(path, 1)

nextAvailablePath(path, files) ==
    IF path \notin files THEN path ELSE nextVersion(path, 1, files)

\* os.Create(path): the file is created, or truncated when it exists.
Create(path) ==
    /\ fs' = fs \cup {path}
    /\ truncated' = truncated \cup (fs \cap {path})

\* csvPath := nextAvailablePath(OutputDir/OutputFile) and output.NewCSVWriter(csvPath);
\* when the file cannot be created Run returns the error.
Run_OpenCSV ==
    /\ pathPc = "csv"
    /\ \E created \in BOOLEAN :
          IF created
          THEN /\ csvPath' = nextAvailablePath(outFile, fs)
               /\ Create(nextAvailablePath(outFile, fs))
               /\ pathPc' = "json"
          ELSE /\ pathPc' = "failed"
               /\ UNCHANGED <<fs, csvPath, truncated>>
    /\ UNCHANGED <<runVars, pc, loopVars, tryVars, outVars, streamVars, guardVars, psVars, jqVars, sinkVars,
                   outFile, jsonPath>>

\* jsonPath := nextAvailablePath(OutputDir/model_results.json) and
\* output.NewJSONWriter(jsonPath), after the CSV file was created.
Run_OpenJSON ==
    /\ pathPc = "json"
    /\ \E created \in BOOLEAN :
          IF created
          THEN /\ jsonPath' = nextAvailablePath(JSONName, fs)
               /\ Create(nextAvailablePath(JSONName, fs))
               /\ pathPc' = "open"
          ELSE /\ pathPc' = "failed"
               /\ UNCHANGED <<fs, jsonPath, truncated>>
    /\ UNCHANGED <<runVars, pc, loopVars, tryVars, outVars, streamVars, guardVars, psVars, jqVars, sinkVars,
                   outFile, csvPath>>

NextPath == Run_OpenCSV \/ Run_OpenJSON

SpecPath == InitPath /\ [][NextPath]_vars

(***************************************************************************)
(* The Result of one benchmark on its own.  Worker 1 has sent the request  *)
(* of the only try of a benchmark; the server answers with any response    *)
(* text of up to MaxText letters and spaces and any evaluation count up to *)
(* MaxEval, or the try fails or is aborted; the Result gets its placement  *)
(* and is written.                                                         *)
(***************************************************************************)
Chars == {"a", " "}

Texts == UNION {[1..n -> Chars] : n \in 0..MaxText}

\* The decoded bodies of successful /api/generate responses.
Answers ==
    {[Response |-> s, TotalDuration |-> 9, LoadDuration |-> 3, PromptEvalCount |-> 4,
      PromptEvalDuration |-> 2, EvalCount |-> n, EvalDuration |-> 2] :
        s \in Texts, n \in 0..MaxEval}

\* The body of a 200 response is read and decoded.
Inference_Answer(w) ==
    /\ ~panicked
    /\ pc[w] = "iBody"
    /\ \E reply \in ReadReplies, data \in Answers :
          ReadReply(w, reply) /\ InferenceBody(w, reply, data)
    /\ UNCHANGED <<runVars, loopVars, mon, fired, reqs, sleeps, outVars, unitVars>>

NextAnswer ==
    \/ \E w \in Workers : Inference_Do(w)
    \/ \E w \in Workers : Inference_Answer(w)
    \/ \E w \in Workers : Inference_Loop(w)
    \/ \E w \in Workers : monitorLoading_Tick(w)
    \/ \E w \in Workers : monitorLoading_Done(w)
    \/ \E w \in Workers : Deadline(w)
    \/ \E w \in Workers : runForURL_Succeeded(w)
    \/ \E w \in Workers : runForURL_Failed(w)
    \/ \E w \in Workers : CSVWriter_Write(w)
    \/ \E w \in Workers : JSONWriter_Write(w)

SpecAnswer == InitMonitor /\ [][NextAnswer]_vars

(***************************************************************************)
(* GetRunningModelInfo on its own: one query, over every answer of         *)
(* /api/ps that lists up to MaxResident models with names of up to MaxName *)
(* letters, and every name of that length asked for.  The size of a listed *)
(* model is its place in the list, so that the figures returned tell the   *)
(* entry they came from.                                                   *)
(***************************************************************************)
PsNames == UNION {[1..n -> {"a", "b"}] : n \in 1..MaxName}

\* What GET /api/ps can come to: a transport error, a status other than 200, a
\* body that does not decode, or a decoded payload.
PsReplies == {"transport", "status", "decode", "ok"}

\* The payloads of /api/ps: the resident models, each listed once.
Payloads ==
    UNION {{[k \in 1..n |-> [Name |-> names[k], Size |-> k, SizeVRAM |-> 0]] :
                names \in {f \in [1..n -> PsNames] :
                              \A j, k \in 1..n : f[j] = f[k] => j = k}} : n \in 0..MaxResident}

\* A query: the name asked for and the answer; only a decoded answer has a payload.
Queries ==
    {[reply |-> "ok", models |-> p, modelName |-> name] : p \in Payloads, name \in PsNames}
        \cup {[reply |-> r, models |-> <<>>, modelName |-> name] :
                    r \in PsReplies \ {"ok"}, name \in PsNames}

\* strings.HasPrefix(s, prefix)
HasPrefix(s, prefix) == Len(prefix) <= Len(s) /\ SubSeq(s, 1, Len(prefix)) = prefix

\* The entry of the payload the loop over payload.Models returns from.
Resident(m, modelName) == m.Name = modelName \/ HasPrefix(m.Name, modelName)

\* GetRunningModelInfo: an error for a failed GET, a bad status or an undecodable
\* body; the figures of the first listed model that matches; (0, 0, nil) when none
\* does.
GetRunningModelInfo(reply, listed, modelName) ==
    LET hits == {k \in 1..Len(listed) : Resident(listed[k], modelName)}
    IN  IF reply # "ok" THEN [done |-> TRUE, err |-> TRUE, size |-> 0, vram |-> 0]
        ELSE IF hits = {} THEN [done |-> TRUE, err |-> FALSE, size |-> 0, vram |-> 0]
        ELSE LET m == listed[CHOOSE k \in hits : \A j \in hits : k <= j]
             IN  [done |-> TRUE, err |-> FALSE, size |-> m.Size, vram |-> m.SizeVRAM]

InitQuery ==
    /\ InitRun({IdleConfig}, SerialTags, SoundDisk)
    /\ StreamIdle
    /\ GuardIdle
    /\ psin \in Queries
    /\ psret = NoInfo
    /\ JqIdle
    /\ PathIdle
    /\ SinksIdle

GetRunningModelInfo_Call ==
    /\ ~psret.done
    /\ psret' = GetRunningModelInfo(psin.reply, psin.models, psin.modelName)
    /\ UNCHANGED <<runVars, pc, loopVars, tryVars, outVars, streamVars, guardVars, psin, jqVars,
                   pathVars, sinkVars>>

SpecQuery == InitQuery /\ [][GetRunningModelInfo_Call]_vars

(***************************************************************************)
(* The Tk/s cell of forest_summary on its own: one Result of the JSON      *)
(* stream, with or without an error, with every eval_count up to MaxCount  *)
(* and every eval_duration up to MaxHalves.  Durations are counted in      *)
(* half seconds: 4 stands for 2000000000 ns, and the 1e9 ns of the         *)
(* division for PerSecond.  For these durations .eval_duration/1e9 is      *)
(* exact in jq's double arithmetic, and so is the floor of the quotient.   *)
(***************************************************************************)
PerSecond == 2

\* "error" is left out of the JSON of a Result without error (omitempty): .error is
\* then null, modelled as the empty text.
Rows == [error : {"", "Network/Connection Error"}, eval_count : 0..MaxCount,
         eval_duration : 0..MaxHalves]

\* A summary that divides whatever the duration is (by zero: jq ends with an error).
TkPerSec_unguarded(r) ==
    IF r.error # "" THEN [kind |-> "ERROR", n |-> 0]
    ELSE IF r.eval_duration = 0 THEN [kind |-> "division by zero", n |-> 0]
    ELSE [kind |-> "number", n |-> (r.eval_count * PerSecond) \div r.eval_duration]

\* if .error and .error != "" then "ERROR"
\* elif .eval_duration > 0 then ((.eval_count / (.eval_duration/1e9)) | floor)
\* else 0 end
TkPerSec(r) ==
    IF r.error # "" THEN [kind |-> "ERROR", n |-> 0]
    ELSE IF r.eval_duration > 0
    THEN [kind |-> "number", n |-> (r.eval_count * PerSecond) \div r.eval_duration]
    ELSE [kind |-> "number", n |-> 0]

InitSummary ==
    /\ InitRun({IdleConfig}, SerialTags, SoundDisk)
    /\ StreamIdle
    /\ GuardIdle
    /\ PsIdle
    /\ row \in Rows
    /\ shown = NoCell
    /\ results = <<>> /\ merged = <<>> /\ applied = 0
    /\ PathIdle
    /\ SinksIdle

forest_summary_Row ==
    /\ shown = NoCell
    /\ shown' = TkPerSec(row)
    /\ UNCHANGED <<runVars, pc, loopVars, tryVars, outVars, streamVars, guardVars, psVars,
                   row, results, merged, applied, pathVars, sinkVars>>

SpecSummary == InitSummary /\ [][forest_summary_Row]_vars

(***************************************************************************)
(* forest_merge_results on its own: an array of Result records goes        *)
(* through the function, and its output goes through it once more.  A      *)
(* record is reduced to the fields the function reads.  model and url are  *)
(* the ranks of the two strings and timestamp is the rank of the           *)
(* RFC3339Nano string in jq's order of strings, which is the order jq      *)
(* sorts them in; config is the option set, here its num_ctx.  An error of *)
(* "" stands for a Result without error field as well (omitempty).         *)
(***************************************************************************)
MergeModels == 1..2

MergeURLs == 1..2

Options == {[num_ctx |-> 2048], [num_ctx |-> 4096]}

\* The records of the input: the key of a record differs from the first key in at
\* most one of its three parts.
Records ==
    {r \in [model : MergeModels, url : MergeURLs, config : Options,
            error : {"", "Timeout Error"}, timestamp : 1..MaxStamp] :
        Cardinality({f \in {"model", "url", "config"} :
                        \/ f = "model" /\ r.model # 1
                        \/ f = "url" /\ r.url # 1
                        \/ f = "config" /\ r.config.num_ctx # 2048}) <= 1}

\* .config | tostring: the JSON text of the option set, as the pair of its one key
\* and the value; two texts are ordered by the value.
tostring(c) == <<"num_ctx", c.num_ctx>>

\* [.model, .url, (.config | tostring)]
GroupKey(r) == <<r.model, r.url, tostring(r.config)>>

\* jq's order of two such arrays: element by element.
KeyLess(a, b) ==
    \/ a[1] < b[1]
    \/ a[1] = b[1] /\ a[2] < b[2]
    \/ a[1] = b[1] /\ a[2] = b[2] /\ a[3][2] < b[3][2]

\* The keys of a set, in ascending order.
RECURSIVE Ascending(_)
Ascending(K) ==
    IF K = {} THEN <<>>
    ELSE LET k == CHOOSE x \in K : \A y \in K \ {x} : KeyLess(x, y)
         IN  <<k>> \o Ascending(K \ {k})

\* group_by(f): the groups in the order of their keys, the members of a group in the
\* order of the input.
group_by(s) ==
    LET keys == Ascending({GroupKey(s[k]) : k \in 1..Len(s)})
    IN  [g \in 1..Len(keys) |-> SelectSeq(s, LAMBDA r : GroupKey(r) = keys[g])]

\* A merge that takes the most recent record of a key, failed or not.
Success_ignored(r) == 0

\* (if .error == null or .error == "" then 1 else 0 end)
Success(r) == IF r.error = "" THEN 1 ELSE 0

\* The order of the arrays [Success, .timestamp] of two records: a is not after b.
NotAfter(a, b) ==
    \/ Success(a) < Success(b)
    \/ Success(a) = Success(b) /\ a.timestamp <= b.timestamp

\* sort_by(f): a stable sort; a record goes behind the records that are not after it.
RECURSIVE Insert(_, _)
Insert(x, s) ==
    IF s = <<>> THEN <<x>>
    ELSE IF NotAfter(s[Len(s)], x) THEN Append(s, x)
    ELSE Append(Insert(x, SubSeq(s, 1, Len(s) - 1)), s[Len(s)])

RECURSIVE sort_by(_)
sort_by(s) ==
    IF s = <<>> THEN <<>> ELSE Insert(s[Len(s)], sort_by(SubSeq(s, 1, Len(s) - 1)))

\* last
last(s) == s[Len(s)]

\* def forest_merge_results: group_by(...) | map(sort_by(...) | last)
forest_merge_results(s) ==
    LET groups == group_by(s)
    IN  [g \in 1..Len(groups) |-> last(sort_by(groups[g]))]

InitMerge ==
    /\ InitRun({IdleConfig}, SerialTags, SoundDisk)
    /\ StreamIdle
    /\ GuardIdle
    /\ PsIdle
    /\ row = NoRow /\ shown = NoCell
    /\ results \in SeqsUpTo(Records, MaxRecords)
    /\ merged = <<>>
    /\ applied = 0
    /\ PathIdle
    /\ SinksIdle

\* The function is applied to the input, and then to its own output.
forest_merge_results_Apply ==
    /\ applied < 2
    /\ merged' = forest_merge_results(IF applied = 0 THEN results ELSE merged)
    /\ applied' = applied + 1
    /\ UNCHANGED <<runVars, pc, loopVars, tryVars, outVars, streamVars, guardVars, psVars,
                   row, shown, results, pathVars, sinkVars>>

SpecMerge == InitMerge /\ [][forest_merge_results_Apply]_vars

(***************************************************************************)
(* Properties.  csv and json hold the Results handed to the two writers,   *)
(* in order; called holds the calls of Inference that were made.           *)
(***************************************************************************)
Count(f, id) == Cardinality({k \in 1..Len(f) : f[k].id = id})

Failed(f, id) == \E k \in 1..Len(f) : f[k].id = id /\ f[k].failed

\* The names the models of list entry e are taken from.
ModelList(e) == IF Len(cfg.Models) > 0 THEN cfg.Models ELSE tags[cfg.URLs[e]]

\* The entries of the exclusion list that occur in the name, both folded to lower case.
Matches(name) ==
    {k \in 1..Len(cfg.Exclude) : Contains(ToLower(name), ToLower(cfg.Exclude[k]))}

Least(S) == CHOOSE k \in S : \A j \in S : k <= j

\* The models of its target a worker has already left behind.
Passed(w) == IF url[w] = 0 THEN {} ELSE 1..Min(mi[w] - 1, Len(models[w]))

\* The call id of Inference has not yet handed its Result to the CSV writer.
BeforeCSV(id) ==
    \E w \in Workers : res[w].id = id
                       /\ pc[w] \in {"iLoop", "iDo", "iBody", "failed", "succeeded", "csv"}

\* The call id of Inference has not yet handed its Result to the JSON writer.
BeforeJSON(id) == BeforeCSV(id) \/ \E w \in Workers : res[w].id = id /\ pc[w] = "json"

\* C1: every call of Inference made for a (target, model, option set) ends with
\* exactly one Result, handed once to the CSV writer and once to the JSON writer: no
\* Result is written while the call is still retrying, none is written twice, none
\* is written without a call, and a call that is over (also when the process is
\* over) has its Result in both sinks.
C1_OneResultPerCall ==
    /\ \A k \in 1..Len(csv) : csv[k].id \in called
    /\ \A k \in 1..Len(json) : json[k].id \in called
    /\ \A id \in called :
          /\ Count(csv, id) = IF ~panicked /\ BeforeCSV(id) THEN 0 ELSE 1
          /\ Count(json, id) = IF ~panicked /\ BeforeJSON(id) THEN 0 ELSE 1

ZeroPerformance(r) ==
    /\ r.Duration = 0 /\ r.TotalDuration = 0 /\ r.LoadDuration = 0
    /\ r.PromptEvalDuration = 0 /\ r.EvalDuration = 0
    /\ r.PromptEvalCount = 0 /\ r.EvalCount = 0
    /\ r.TokensGenerated = 0 /\ r.TokensReturned = 0

\* C2: when the retry loop of Inference is left with the budget used up and no guard
\* abort, Inference returns one Result whose error text is not empty and whose
\* durations and token counts are all zero: the loop is never left without a Result.
C2_ExhaustedBudgetYieldsFailedResult ==
    \A w \in Workers :
        /\ (pc[w] = "iLoop" /\ i[w] >= cfg.MaxRetries) => ~panicked
        /\ (pc[w] = "failed" /\ err[w] \notin AbortReasons)
              => (res[w].Error # "" /\ res[w].Error = err[w] /\ ZeroPerformance(res[w]))

\* C3: once the monitor of a try has delivered a guard abort, the call of Inference
\* sends no further request, and the error it returns, which becomes the error of
\* the Result, is the guard's reason, wherever the request was when it was cancelled.
C3_AbortEndsTheCall ==
    /\ [](\A w \in Workers :
             (fired[w] # "" /\ pc[w] \in {"failed", "succeeded", "csv", "json"})
                => (err[w] = fired[w] /\ (pc[w] \in {"csv", "json"} => res[w].Error = fired[w])))
    /\ [][\A w \in Workers :
             (fired[w] # "" /\ pc[w] \in {"iLoop", "iDo", "iBody"}) => reqs'[w] = reqs[w]]_vars

\* C4: a call of Inference during which the monitor saw a placement violation never
\* returns a successful Result, and no successful Result is written for it.
C4_ViolationNeverSucceeds ==
    \A w \in Workers :
        fired[w] # "" => (pc[w] # "succeeded" /\ (pc[w] \in {"csv", "json"} => res[w].Error # ""))

\* A line with "done": true is delivered before the scanner has an error.
DoneInTime(b) ==
    \E k \in 1..Len(b.lines) :
        /\ b.lines[k] = "done"
        /\ \A j \in 1..k : b.lines[j] # "toolong"
        /\ b.errAt = 0 \/ b.errAt > k

\* C5: processStream returns true exactly when a line with "done": true is met
\* before the body ends or the scanner fails, whatever empty and undecodable lines
\* come before it; it returns nothing but true or false.
C5_ProcessStreamDone ==
    sret # "none" => sret = IF DoneInTime(sbody) THEN "true" ELSE "false"

\* processStream returned true for a body with an undecodable line before the final
\* chunk and a read error after it.
C5_Witness ==
    /\ sret = "true"
    /\ sbody.errAt # 0
    /\ \E j \in 1..Len(sbody.lines) : sbody.lines[j] \in {"garbage", "typeerr"}
    /\ \E j \in 1..Len(sbody.lines) : sbody.lines[j] = "empty"

\* min(N, number of targets), with N = 1 when the configured level is not positive.
PoolSize == Min(IF cfg.Concurrency <= 0 THEN 1 ELSE cfg.Concurrency, Len(cfg.URLs))

\* C6: the workers that were started, and so the targets that are being processed
\* at any moment, are never more than min(N, number of targets); with an empty
\* target list no worker is started and no Result is written.
C6_PoolBound ==
    /\ Cardinality({w \in Workers : pc[w] # "unstarted"}) <= PoolSize
    /\ Cardinality({w \in Workers : url[w] # 0}) <= PoolSize
    /\ Len(cfg.URLs) = 0
          => (/\ \A w \in Workers : pc[w] = "unstarted"
              /\ csv = <<>> /\ json = <<>> /\ called = {} /\ checked = {})

\* As many targets as the pool has workers are being processed at once, one of them
\* in a benchmark, by a pool that the configured level allows and the list fills.
C6_Witness ==
    /\ PoolSize = MaxConcurrency
    /\ Cardinality({w \in Workers : url[w] # 0}) = PoolSize
    /\ \E w \in Workers : pc[w] = "iBody"

\* The worker has a request in flight: discovery, the health check, a benchmark or
\* the placement query after it.
InFlight(w) ==
    pc[w] \in {"getModels", "sDo", "sBody", "iDo", "iBody", "failed", "succeeded"}

\* The worker has a health check or a benchmark request in flight.
Testing(w) == pc[w] \in {"sDo", "sBody", "iDo", "iBody"}

\* C7 as stated: two workers never have health check or benchmark requests in flight
\* against the same target.
C7_OneWorkerPerHost ==
    \A w1, w2 \in Workers :
        (w1 # w2 /\ Testing(w1) /\ Testing(w2)) => cfg.URLs[url[w1]] # cfg.URLs[url[w2]]

\* C7: no entry of the target list is processed by two workers, so two workers have
\* requests in flight against one host only when the host is listed twice; and
\* within an entry the calls are made one after another: every earlier call has its
\* Result in the JSON sink before the next one is made.
C7_OneWorkerPerEntry ==
    /\ \A w1, w2 \in Workers : (w1 # w2 /\ url[w1] # 0) => url[w1] # url[w2]
    /\ \A w \in Workers : \A id \in called :
          id[1] = url[w] => (Count(json, id) = 1 \/ (BeforeJSON(id) /\ id = <<url[w], mi[w], ci[w]>>))
    /\ \A id \in called :
          Count(json, id) = 1 \/ \E w \in Workers : url[w] = id[1]

\* Every worker has a request in flight, each for its own entry of the list: one
\* is reading the body of a benchmark response while another awaits discovery.
C7_Witness ==
    /\ \A w \in Workers : InFlight(w)
    /\ \A w1, w2 \in Workers : w1 # w2 => url[w1] # url[w2]
    /\ \E w \in Workers : pc[w] = "iBody"
    /\ \E w \in Workers : pc[w] = "getModels"

\* The option sets model m of entry e was benchmarked with are the list up to its
\* end or up to the first failure, each with its Result written.
Tested(e, m) ==
    \E k \in 0..cfg.NumConfigs :
        /\ {c \in 1..cfg.NumConfigs : <<e, m, c>> \in called} = 1..k
        /\ \A c \in 1..k : Count(csv, <<e, m, c>>) = 1 /\ Count(json, <<e, m, c>>) = 1
        /\ \A c \in 1..(k - 1) : ~Failed(json, <<e, m, c>>)
        /\ k = cfg.NumConfigs \/ (k > 0 /\ Failed(csv, <<e, m, k>>) /\ Failed(json, <<e, m, k>>))

\* C8: an option set is tried only when the one before it, for the same model on the
\* same target, succeeded: after a failed call the failed Result is written and no
\* further call is made for that model; every model the worker is done with, also one
\* that follows a failed model, was tried with the list from its first option set on.
C8_FailureEndsTheModel ==
    /\ \A id \in called :
          id[3] > 1 => LET prev == <<id[1], id[2], id[3] - 1>>
                       IN  prev \in called /\ Count(json, prev) = 1 /\ ~Failed(json, prev)
    /\ \A w \in Workers : \A m \in Passed(w) :
          Matches(models[w][m]) = {} => Tested(url[w], m)

\* The first model failed at its first option set and was not tried with the second;
\* the model after it was tried with both.
C8_Witness ==
    /\ cfg.NumConfigs = 2
    /\ Failed(json, <<1, 1, 1>>)
    /\ <<1, 1, 2>> \notin called
    /\ <<1, 2, 2>> \in called
    /\ Count(json, <<1, 2, 2>>) = 1

\* C9: a model is skipped exactly when its lower-cased name contains the lower-cased
\* form of an entry of the exclusion list.  A skipped model gets one notice, naming
\* the first such entry in list order, and no health check, benchmark or Result; any
\* other model is health-checked.
C9_Exclusion ==
    /\ \A k \in 1..Len(notices) :
          LET n == notices[k]
          IN  /\ n.model = ModelList(n.url)[n.mi]
              /\ Matches(n.model) # {}
              /\ n.filter = cfg.Exclude[Least(Matches(n.model))]
              /\ <<n.url, n.mi>> \notin checked
              /\ \A j \in 1..Len(notices) :
                    (notices[j].url = n.url /\ notices[j].mi = n.mi) => j = k
    /\ \A c \in checked : Matches(ModelList(c[1])[c[2]]) = {}
    /\ \A id \in called : <<id[1], id[2]>> \in checked
    /\ \A k \in 1..Len(csv) : <<csv[k].id[1], csv[k].id[2]>> \in checked
    /\ \A k \in 1..Len(json) : <<json[k].id[1], json[k].id[2]>> \in checked
    /\ \A w \in Workers : \A m \in Passed(w) :
          IF Matches(models[w][m]) # {}
          THEN \E k \in 1..Len(notices) : notices[k].url = url[w] /\ notices[k].mi = m
          ELSE <<url[w], m>> \in checked

\* The target lists a:embed and b:chat and the exclusion list is ["embed"]: the run is
\* over with one notice, for a:embed, and b:chat health-checked and benchmarked.
C9_Witness ==
    /\ cfg.Models = <<>> /\ cfg.Exclude = <<s_embed>>
    /\ runPc = "returned"
    /\ Len(notices) = 1 /\ notices[1].model = a_embed /\ notices[1].filter = s_embed
    /\ checked = {<<1, 2>>}
    /\ Count(json, <<1, 2, 1>>) = 1

\* Every model of entry e that is not excluded was health-checked and benchmarked.
Completed(e) ==
    \A m \in 1..Len(ModelList(e)) :
        Matches(ModelList(e)[m]) = {} => (<<e, m>> \in checked /\ Tested(e, m))

\* C10: a target whose discovery failed gets no health check, no benchmark and no
\* Result; when Run has returned after starting the workers it returned no error,
\* and every other target was processed to completion.
C10_DiscoveryFailureSkipsTheTarget ==
    /\ \A e \in undiscovered :
          /\ \A c \in checked : c[1] # e
          /\ \A id \in called : id[1] # e
          /\ \A k \in 1..Len(notices) : notices[k].url # e
          /\ \A k \in 1..Len(json) : json[k].id[1] # e
          /\ \A k \in 1..Len(csv) : csv[k].id[1] # e
    /\ (runPc = "returned" /\ (undiscovered # {} \/ runErr = Nil))
          => (/\ runErr = Nil
              /\ \A e \in 1..Len(cfg.URLs) : e \in undiscovered \/ Completed(e))

\* Run has returned: discovery failed for the first of two targets and the second
\* was processed to completion.
C10_Witness ==
    /\ runPc = "returned" /\ runErr = Nil
    /\ Len(cfg.URLs) = 2
    /\ undiscovered = {1}
    /\ Completed(2)
    /\ \E k \in 1..Len(json) : json[k].id[1] = 2

StreamPcs == {"sLoop", "sDo", "sBody"}

\* C11: the outcome of the health check never changes which benchmarks run.  The
\* health check hands nothing to a writer and makes no call of Inference; when it
\* returns, with whatever error, the loop over the inference configurations stands
\* at the first one, and its next step is the call of Inference with the first
\* configuration (or the next model when the list is empty).
C11_CheckNeverGatesTheBenchmarks ==
    /\ [](\A w \in Workers : (pc[w] = "cfg" /\ err[w] # Nil) => ci[w] = 1)
    /\ [][\A w \in Workers :
             /\ (pc[w] \in StreamPcs /\ pc'[w] # pc[w])
                   => (/\ csv' = csv /\ json' = json /\ called' = called
                       /\ res'[w] = res[w]
                       /\ pc'[w] \in StreamPcs \/ (pc'[w] = "cfg" /\ ci'[w] = 1))
             /\ (pc[w] = "cfg" /\ ci[w] = 1 /\ pc'[w] # pc[w])
                   => IF cfg.NumConfigs >= 1
                      THEN /\ pc'[w] = "iLoop"
                           /\ called' = called \cup {<<url[w], mi[w], 1>>}
                           /\ res'[w].Config = 1
                      ELSE pc'[w] = "model" /\ called' = called]_vars

\* The health check of the second model has returned a guard abort after the first
\* model was benchmarked: nothing was written for it, and the loop over the
\* inference configurations stands at the first of two.
C11_Witness ==
    \E w \in Workers :
        /\ pc[w] = "cfg" /\ ci[w] = 1 /\ mi[w] = 2
        /\ err[w] \in AbortReasons
        /\ cfg.NumConfigs = 2
        /\ <<url[w], 2>> \in checked
        /\ \A k \in 1..Len(json) : json[k].id[2] = 1
        /\ Count(json, <<url[w], 1, 2>>) = 1

\* The worker is in the loop over the models of its target.
InModels(w) == pc[w] \notin {"unstarted", "range", "getModels", "exit"}

\* C12: with a non-empty explicit model list every worker uses that list for every
\* target it takes, GetModels is never called and no target is skipped for a failed
\* discovery; with an empty list the models of a target are the names its discovery
\* returned, in their order.
C12_ExplicitListSkipsDiscovery ==
    IF Len(cfg.Models) > 0
    THEN /\ undiscovered = {}
         /\ \A w \in Workers :
               /\ pc[w] # "getModels"
               /\ url[w] # 0 => (InModels(w) /\ models[w] = cfg.Models)
         /\ runPc = "returned" /\ runErr = Nil
               => \A e \in 1..Len(cfg.URLs) : \A m \in 1..Len(cfg.Models) :
                     <<e, m>> \in checked
                     \/ \E k \in 1..Len(notices) : notices[k].url = e /\ notices[k].mi = m
    ELSE \A w \in Workers :
            /\ InModels(w) => models[w] = tags[cfg.URLs[url[w]]]
            /\ url[w] # 0 => (InModels(w) \/ pc[w] = "getModels")

\* Run has returned: with the explicit list [b:chat] both targets, h2 among them,
\* which does not list the model, had it health-checked, and nothing was discovered.
C12_Witness ==
    /\ cfg.Models = <<b_chat>>
    /\ Len(cfg.URLs) = 2 /\ cfg.URLs[2] = "h2"
    /\ runPc = "returned"
    /\ checked = {<<1, 1>>, <<2, 1>>}
    /\ undiscovered = {}

C14_MonitorEndsWithTheTry ==
    \A w \in Workers : mon[w] => InTry(w)

\* C15: the monitor never blocks on delivering an abort: while it runs its tick can
\* always be taken, whatever the request path is doing and whatever is in the
\* channel.  A reason is put into the channel only when the channel is empty, so the
\* channel never holds a second one, and the monitor ends with that tick; the
\* monitor cancels the context only in a tick that put a reason into the channel.
C15_AbortDeliveryNeverBlocks ==
    /\ [](\A w \in Workers : (mon[w] /\ ~panicked) => ENABLED monitorLoading_Tick(w))
    /\ [](\A w \in Workers : abort[w] \in AbortReasons \cup {""} /\ (abort[w] # "" => ~mon[w]))
    /\ [][\A w \in Workers :
             /\ (abort'[w] # abort[w] /\ abort'[w] # "")
                   => (abort[w] = "" /\ mon[w] /\ ~mon'[w] /\ ctxDone'[w] /\ fired'[w] = abort'[w])
             /\ (pc'[w] = pc[w] /\ mon[w] /\ ~mon'[w] /\ ~ctxDone[w] /\ ctxDone'[w])
                   => (abort[w] = "" /\ abort'[w] # "")]_vars

\* The monitor has put its reason into the channel and ended while the request path
\* was reading the body of a benchmark response.
C15_Witness ==
    \E w \in Workers :
        /\ pc[w] = "iBody"
        /\ abort[w] = ErrAbortSplit /\ fired[w] = ErrAbortSplit
        /\ ctxDone[w] /\ ~mon[w]

\* C16 as stated: the monitor emits an abort exactly when the model is resident with
\* nothing in VRAM while cpu_only_allowed is false, or resident with 0 < size_vram <
\* size while gpu_only is true.
C16_AbortInTwoCases ==
    gret # "none" =>
        (gret # Nil <=>
            /\ ~gin.err
            /\ \/ gin.size > 0 /\ gin.vram = 0 /\ ~gin.cpuOnlyAllowed
               \/ 0 < gin.vram /\ gin.vram < gin.size /\ gin.gpuOnly)

\* C16: the monitor emits an abort exactly when the poll succeeded, the model is
\* resident (size > 0) and either nothing of it is in VRAM while cpu_only_allowed is
\* false (the reason names the CPU), or less than all of it is in VRAM, nothing
\* included, while gpu_only is true (the reason names the split); in every other
\* case it emits nothing and keeps polling.
C16_GuardVerdict ==
    gret # "none" =>
        LET resident == ~gin.err /\ gin.size > 0
            onCPU == resident /\ gin.vram = 0 /\ ~gin.cpuOnlyAllowed
            spilled == resident /\ gin.vram < gin.size /\ gin.gpuOnly
        IN  gret = IF onCPU THEN ErrAbortCPU ELSE IF spilled THEN ErrAbortSplit ELSE Nil

\* The monitor judged a model that is resident with nothing in VRAM, under
\* cpu_only_allowed = true and gpu_only = true, and emitted the split reason.
C16_Witness ==
    /\ gret = ErrAbortSplit
    /\ ~gin.err /\ gin.size > 0 /\ gin.vram = 0
    /\ gin.cpuOnlyAllowed /\ gin.gpuOnly

\* C17 as stated: Run returns an error only when the output directory cannot be
\* created.
C17_OnlyMkdirFails == (runPc = "returned" /\ runErr # Nil) => runErr = "mkdir"

\* C17: Run returns an error only when the output directory cannot be created or
\* one of the two output files cannot be opened, and then no worker was started and
\* nothing was tested or written.  Once the workers are started no failure makes Run
\* return an error: with targets whose discovery failed, failed health checks,
\* failed benchmarks and failed writes, Run returns nil when it returns, and every
\* target it discovered was processed to completion.
C17_RunFailsOnlyInSetup ==
    runPc = "returned" =>
        /\ runErr \in {Nil, "mkdir", "csv", "json"}
        /\ runErr # Nil
              => (/\ \A w \in Workers : pc[w] = "unstarted"
                  /\ csv = <<>> /\ json = <<>> /\ called = {} /\ checked = {}
                  /\ undiscovered = {} /\ wfail = {})
        /\ (\E w \in Workers : pc[w] # "unstarted") \/ wfail # {} \/ undiscovered # {}
              => runErr = Nil
        /\ runErr = Nil
              => \A e \in 1..Len(cfg.URLs) : e \in undiscovered \/ Completed(e)

\* Run has returned nil although both writers failed at every write: the first
\* model failed its first benchmark and the second was benchmarked after it.
C17_Witness ==
    /\ runPc = "returned" /\ runErr = Nil
    /\ wfail = {"csv", "json"}
    /\ Failed(json, <<1, 1, 1>>)
    /\ Count(json, <<1, 2, 1>>) = 1 /\ ~Failed(json, <<1, 2, 1>>)

\* The workers inside Write of the CSV writer, and of the JSON writer.
InCSV == {w \in Workers : sinkPc[w] \in {"field1", "field2", "flush"}}

InJSON == {w \in Workers : sinkPc[w] = "encode"}

\* The Results of worker w whose Write has returned, for each writer.
WrittenCSV(w) ==
    {n \in 1..load[w] : n > todo[w] \/ (n = todo[w] /\ sinkPc[w] \in {"json", "encode"})}

WrittenJSON(w) == {n \in 1..load[w] : n > todo[w]}

\* C18: at most one worker is inside Write of a writer at a time; the record of a
\* Write is in the file, whole and flushed, when the lock is released (the buffer
\* is empty whenever the mutex is free); and the file is a sequence of whole records,
\* one for each Result whose Write has returned: the fields of two records are never
\* interleaved, and no record is lost or doubled.
C18_WritesAreSerialized ==
    /\ Cardinality(InCSV) <= 1 /\ Cardinality(InJSON) <= 1
    /\ csvMu = 0 => (InCSV = {} /\ csvBuf = <<>>)
    /\ jsonMu = 0 => InJSON = {}
    /\ Len(csvFile) % 2 = 0
    /\ \A k \in 1..(Len(csvFile) \div 2) :
          LET a == csvFile[2 * k - 1]
              b == csvFile[2 * k]
          IN  a[3] = 1 /\ b[3] = 2 /\ a[1] = b[1] /\ a[2] = b[2]
    /\ \A w \in Workers : \A n \in 1..MaxConfigs :
          /\ Cardinality({k \in 1..Len(csvFile) : csvFile[k] = <<w, n, 1>>})
                = IF n \in WrittenCSV(w) THEN 1 ELSE 0
          /\ Cardinality({k \in 1..Len(jsonFile) : jsonFile[k] = <<w, n>>})
                = IF n \in WrittenJSON(w) THEN 1 ELSE 0

\* One worker is inside Write of the CSV writer with half a record in the buffer,
\* another is waiting for the same lock, and the file holds a record of each.
C18_Witness ==
    /\ \E w \in Workers : sinkPc[w] = "field2" /\ Len(csvBuf) = 1
    /\ \E w \in Workers : sinkPc[w] = "csv"
    /\ \E j, k \in 1..Len(csvFile) : csvFile[j][1] # csvFile[k][1]

\* path is the version of name that nextAvailablePath is to return when the files in
\* existing are there: name itself when it is not among them, and otherwise name.i
\* for the least i >= 1 with name.i not among them.
FirstFree(path, name, existing) ==
    IF name \notin existing THEN path = name
    ELSE \E k \in 1..(Cardinality(existing) + 1) :
            /\ path = Append(name, k)
            /\ path \notin existing
            /\ \A j \in 1..(k - 1) : Append(name, j) \in existing

\* C19: the path of the CSV stream is the first free version of the configured name
\* among the files that were there before the run, and the path of the JSON stream
\* the first free version of model_results.json among those files and the CSV file
\* just created; Run opens, and so truncates, no file that existed, and the two
\* streams never have the same path, also when both are configured with one name.
C19_VersionedOutputs ==
    /\ truncated = {}
    /\ csvPath # <<>> => FirstFree(csvPath, outFile, fs \ {csvPath, jsonPath})
    /\ jsonPath # <<>> => (FirstFree(jsonPath, JSONName, fs \ {jsonPath}) /\ csvPath # jsonPath)
    /\ pathPc = "open" => (csvPath # <<>> /\ jsonPath # <<>> /\ {csvPath, jsonPath} \subseteq fs)

\* Both streams are configured as model_results.json, which exists, and so does its
\* version .2: the CSV stream was opened as .1 and the JSON stream as .3.
C19_Witness ==
    /\ pathPc = "open"
    /\ outFile = JSONName
    /\ csvPath = Append(JSONName, 1)
    /\ jsonPath = Append(JSONName, 3)
    /\ Versions(JSONName) \subseteq fs

\* Entry e of the target list has been processed: no worker holds it and it is no
\* longer in the channel.
Processed(e) ==
    /\ runPc # "start"
    /\ \A w \in Workers : url[w] # e
    /\ \A k \in 1..Len(urlChan) : urlChan[k] # e

\* The skip notices of entry e, in the order they were logged.
NoticesOf(e) ==
    LET own == SelectSeq(notices, LAMBDA n : n.url = e)
    IN  [k \in 1..Len(own) |-> <<own[k].mi, own[k].model, own[k].filter>>]

CheckedOf(e) == {c[2] : c \in {d \in checked : d[1] = e}}

PlacementOf(r) ==
    {sample \in PsSamples :
        LET p == WithPlacement(EmptyResult, sample)
        IN  /\ r.MemoryUsage = p.MemoryUsage
            /\ r.VRAMUsage = p.VRAMUsage
            /\ r.VRAMPercentage = p.VRAMPercentage}

\* C21 as stated: every Result handed to the writers with a non-empty error has zero
\* placement figures (memory usage, VRAM usage, VRAM percentage), like its other
\* measurement fields.
C21_FailedResultHasNoPlacement ==
    \A w \in Workers :
        (pc[w] \in {"csv", "json"} /\ res[w].Error # "")
            => (/\ ZeroPerformance(res[w])
                /\ res[w].MemoryUsage = 0 /\ res[w].VRAMUsage = 0 /\ res[w].VRAMPercentage = 0)

\* C21, amended: every Result handed to the writers with a non-empty error has zero
\* durations and token counts and no response text; its placement figures are those
\* of the one placement query runForURL makes after the failure: zero when the query
\* failed or found the model not resident, and otherwise the sample's.
C21_FailedResultFigures ==
    \A w \in Workers :
        (pc[w] \in {"csv", "json"} /\ res[w].Error # "")
            => (/\ ZeroPerformance(res[w])
                /\ res[w].Response = <<>>
                /\ PlacementOf(res[w]) # {})

\* A failed Result is about to be written with the placement of a resident model.
C21_Witness ==
    \E w \in Workers :
        /\ pc[w] = "csv" /\ res[w].Error # "" /\ err[w] \notin AbortReasons
        /\ res[w].MemoryUsage = 2 /\ res[w].VRAMUsage = 1 /\ res[w].VRAMPercentage = 50

\* C22: once the monitor of the health check has delivered a guard abort,
\* StreamInference sends no further request and returns the guard's reason to
\* runForURL, wherever the request was when it was cancelled and whichever try it was.
C22_CheckReturnsTheAbort ==
    /\ [](\A w \in Workers :
             (fired[w] # "" /\ pc[w] = "cfg" /\ ci[w] = 1) => err[w] = fired[w])
    /\ [][\A w \in Workers :
             (fired[w] # "" /\ pc[w] \in StreamPcs) => reqs'[w] = reqs[w]]_vars

\* A poll that failed, or that found the model not resident.
Quiet(p) == p.sample.err \/ p.sample.size = 0

\* C23: a poll that fails or reports size 0 leaves the monitor as it was: no abort is
\* put into the channel, cancel is not called and the monitor does not return; and
\* as long as every poll was such a poll and the context of the try is not done, the
\* monitor is running and has delivered nothing, however many polls it has made.
C23_QuietPollsKeepTheMonitor ==
    /\ [](\A w \in Workers :
             (w = 1 /\ ~ctxDone[w] /\ \A k \in 1..Len(polls) : Quiet(polls[k]))
                => (mon[w] /\ abort[w] = "" /\ fired[w] = ""))
    /\ [][(polls' # polls /\ Quiet(polls'[Len(polls')]))
             => (mon' = mon /\ abort' = abort /\ ctxDone' = ctxDone /\ fired' = fired)]_vars

\* The monitor has made MaxPolls polls, failed ones and ones that found the model not
\* resident, and is still running with the context of its try not done.
C23_Witness ==
    /\ Len(polls) = MaxPolls
    /\ \A k \in 1..Len(polls) : Quiet(polls[k])
    /\ \E k \in 1..Len(polls) : polls[k].sample.err
    /\ \E k \in 1..Len(polls) : ~polls[k].sample.err
    /\ mon[1] /\ ~ctxDone[1] /\ pc[1] = "iBody"

\* The polls the monitor began when the context of its try was already done.
LatePolls == {k \in 1..Len(polls) : polls[k].late}

\* The monitor of a try whose context is done returns sooner or later.
MonitorEnds == \A w \in Workers : (ctxDone[w] /\ mon[w]) ~> ~mon[w]

\* C24: once the context of a try is done (deadline, return of the try, guard abort)
\* its monitor returns sooner or later, and before it does it makes at most one more
\* poll of /api/ps.
C24_MonitorStopsAfterCancel ==
    /\ MonitorEnds
    /\ [](Cardinality(LatePolls) <= 1)

Classified(w, e) ==
    /\ lastErr'[w] = e
    /\ i'[w] = i[w] + 1
    /\ pc'[w] = (IF pc[w] \in StreamPcs THEN "sLoop" ELSE "iLoop")

\* The classes of failure the request of a try can be put into.
RequestClasses == {ErrHeaderTimeout, ErrNetwork, ErrServer, ErrAPI}

Unplaced(r) == [r EXCEPT !.MemoryUsage = 0, !.VRAMUsage = 0, !.VRAMPercentage = 0]

\* C27: a benchmark that succeeded returns a Result without placement figures; the
\* next step of its worker is the one placement query, and it hands the Result to the
\* writers with the empty error and the measured durations and token counts as they
\* were, with zero placement when the query failed or reported size 0 and with the
\* sample's size and VRAM size when it reported size > 0; nothing else gives a
\* Result placement figures, and the writers record the Result as a success.
C27_PlacementAfterSuccess ==
    /\ [](\A w \in Workers :
            pc[w] = "succeeded"
                => (res[w].Error = "" /\ err[w] = Nil /\ res[w] = Unplaced(res[w])))
    /\ [][\A w \in Workers :
            (pc[w] = "succeeded" /\ <<pc[w], res[w]>>' # <<pc[w], res[w]>>)
                => /\ pc'[w] = "csv"
                   /\ res'[w].Error = ""
                   /\ Unplaced(res'[w]) = res[w]
                   /\ \E sample \in PsSamples :
                        IF sample.err \/ sample.size = 0
                        THEN res'[w] = res[w]
                        ELSE /\ res'[w].MemoryUsage = sample.size
                             /\ res'[w].VRAMUsage = sample.vram]_vars
    /\ [][\A w \in Workers :
            (Unplaced(res'[w]) # res'[w] /\ res'[w] # res[w])
                => pc[w] \in {"succeeded", "failed"}]_vars
    /\ [][\A w \in Workers :
            (pc[w] \in {"csv", "json"} /\ res[w].Error = "" /\ pc'[w] # pc[w])
                => LET out == IF pc[w] = "csv" THEN csv' ELSE json'
                   IN  out[Len(out)] = [id |-> res[w].id, failed |-> FALSE]]_vars

\* A successful Result is about to be written with the measured figures of the
\* benchmark and the placement of a model that is half in VRAM.
C27_Witness ==
    \E w \in Workers :
        /\ pc[w] = "csv" /\ res[w].Error = ""
        /\ res[w].Duration = 1 /\ res[w].TokensGenerated = 100
        /\ res[w].MemoryUsage = 2 /\ res[w].VRAMUsage = 1 /\ res[w].VRAMPercentage = 50

\* C28: in every Result that Inference has returned, the tokens generated are the
\* eval_count of the same Result; in a success both are the evaluation count the
\* server reported, whatever the response text is, and in a failure both are zero.
C28_TokensGeneratedIsEvalCount ==
    /\ [](\A w \in Workers :
            pc[w] \in {"succeeded", "failed", "csv", "json"}
                => /\ res[w].TokensGenerated = res[w].EvalCount
                   /\ err[w] # Nil => res[w].EvalCount = 0)
    /\ [][\A w \in Workers :
            (pc[w] = "iBody" /\ pc'[w] = "succeeded")
                => \E data \in Answers :
                      /\ res'[w].Response = data.Response
                      /\ res'[w].EvalCount = data.EvalCount
                      /\ res'[w].TokensGenerated = data.EvalCount]_vars

\* A successful Result of three words for which the server reported two tokens.
C28_Witness ==
    \E w \in Workers :
        /\ pc[w] = "csv" /\ res[w].Error = ""
        /\ res[w].Response = <<"a", " ", "a">>
        /\ res[w].EvalCount = 2 /\ res[w].TokensGenerated = 2
        /\ res[w].TokensReturned = 2

\* The number of maximal runs of non-space characters of s.
Words(s) == Cardinality({k \in 1..Len(s) : s[k] # " " /\ (k = 1 \/ s[k - 1] = " ")})

\* C29: in every successful Result the tokens returned are the word count of the
\* response text, the number of its maximal runs of non-space characters: 0 for the
\* empty response, and no more for leading, trailing or repeated spaces.
C29_TokensReturnedIsWordCount ==
    \A w \in Workers :
        (pc[w] \in {"succeeded", "csv", "json"} /\ res[w].Error = "")
            => res[w].TokensReturned = Words(res[w].Response)

\* C30: a placement query that got a decoded payload returns a zero-sized sample and
\* no error whenever no listed model has exactly the name asked for, whatever else
\* is listed; a sample with a size comes from a listed entry of exactly that name;
\* and the query returns an error exactly when the GET failed, the status was not
\* 200 or the body did not decode.
C30_OnlyTheNamedModel ==
    psret.done =>
        LET named == {k \in 1..Len(psin.models) : psin.models[k].Name = psin.modelName}
        IN  /\ psret.err <=> psin.reply # "ok"
            /\ (psin.reply = "ok" /\ named = {})
                    => (~psret.err /\ psret.size = 0 /\ psret.vram = 0)
            /\ psret.size # 0
                    => \E k \in named : /\ psret.size = psin.models[k].Size
                                        /\ psret.vram = psin.models[k].SizeVRAM

\* u comes before v in the order of the run: target entry, then model, then
\* option set (0 for the health check of the model).
Before(u, v) ==
    \/ u[1] < v[1]
    \/ u[1] = v[1] /\ u[2] < v[2]
    \/ u[1] = v[1] /\ u[2] = v[2] /\ u[3] < v[3]

\* The health checks and the benchmarks begun so far, as items of the run.
Items == {<<c[1], c[2], 0>> : c \in checked} \cup called

\* With one worker the items are begun in the order of the lists: each new health
\* check or benchmark comes after every item begun before it, a benchmark follows
\* the health check of its model and the benchmark of the option set before it, and
\* the Results reach the sinks in that order.
SerialOrder ==
    /\ [][concurrency(cfg) = 1 =>
            \A it \in Items' \ Items :
                /\ \A old \in Items : Before(old, it)
                /\ it[3] > 0 => <<it[1], it[2], it[3] - 1>> \in Items]_vars
    /\ [](concurrency(cfg) = 1 =>
            /\ \A j, k \in 1..Len(json) : j < k => Before(json[j].id, json[k].id)
            /\ \A j, k \in 1..Len(csv) : j < k => Before(csv[j].id, csv[k].id))

\* Between two items nothing of the earlier one is still running: the worker is not
\* in a request and no monitor is left that polls placement.
SerialQuiet ==
    [](concurrency(cfg) = 1 =>
            \A w \in Workers : pc[w] \in {"range", "getModels", "model", "cfg", "exit"} => ~mon[w])

Identified(w, r) ==
    /\ r.Model = models[w][mi[w]]
    /\ r.URL = cfg.URLs[url[w]]
    /\ r.Config = ci[w]

\* C33: every Result handed to the sinks carries the model, the target URL and the
\* option set of the Inference call it came from, whether the call succeeded,
\* exhausted its retries or was aborted by the guard.
C33_ResultNamesItsAttempt ==
    \A w \in Workers : pc[w] \in {"csv", "json"} => Identified(w, res[w])

\* C34: StreamInference returns nil only from a request it has issued whose stream
\* delivered a chunk with done = true, whatever max_retries >= 0 is configured.
C34_SuccessNeedsAStream ==
    [][\A w \in Workers :
          (pc[w] \in StreamPcs /\ pc'[w] = "cfg" /\ err'[w] = Nil)
              => (pc[w] = "sBody" /\ reqs[w] >= 1)]_vars

\* C35: for every configured max_retries >= 0 a call of Inference returns: with a
\* successful Result and a nil error, or with a Result and a non-nil error; it never
\* dereferences a missing last error, and no worker is brought down by an attempt.
C35_InferenceReturns ==
    /\ [](~panicked)
    /\ [][\A w \in Workers :
            (pc[w] \in {"iLoop", "iDo", "iBody"} /\ pc'[w] \notin {"iLoop", "iDo", "iBody"})
                => \/ pc'[w] = "succeeded" /\ err'[w] = Nil /\ res'[w].Error = ""
                   \/ pc'[w] = "failed" /\ err'[w] # Nil]_vars

\* C36: every try of a health check, the first and each retry, sends its request
\* under a cancellation scope that is neither cancelled nor expired and with a guard
\* monitor running for it.
C36_FreshScopePerTry ==
    [][\A w \in Workers :
          (pc[w] = "sLoop" /\ pc'[w] = "sDo") => (~ctxDone'[w] /\ mon'[w])]_vars

\* Entry e of the target list has been worked on: its discovery failed, or a model
\* of it was skipped or health-checked.
Begun(e) == e \in undiscovered \/ NoticesOf(e) # <<>> \/ CheckedOf(e) # {}

\* C37: every entry of the target list is taken from the channel by exactly one
\* worker and processed once.  The channel only loses its head, to the one worker
\* that takes it at the top of its loop, and the entry taken is held by no other
\* worker and was not worked on before; a worker gives up an entry only to go back
\* for the next; and when Run returns after starting the workers the channel is
\* empty, every worker has left its loop holding nothing, and every entry was
\* processed to the end.
C37_EveryTargetOnce ==
    /\ [][urlChan' # urlChan /\ runPc # "start" =>
            /\ urlChan # <<>> /\ urlChan' = Tail(urlChan)
            /\ ~Begun(Head(urlChan))
            /\ \A w \in Workers : url[w] # Head(urlChan)
            /\ Cardinality({w \in Workers : pc[w] = "range" /\ url'[w] = Head(urlChan)}) = 1]_vars
    /\ [][\A w \in Workers :
            url'[w] # url[w] =>
                \/ url[w] = 0 /\ pc[w] = "range" /\ urlChan # <<>> /\ url'[w] = Head(urlChan)
                \/ url'[w] = 0 /\ pc'[w] = "range"]_vars
    /\ [](\A j, k \in 1..Len(urlChan) : j # k => urlChan[j] # urlChan[k])
    /\ []((runPc = "returned" /\ runErr = Nil) =>
            /\ urlChan = <<>>
            /\ \A w \in Workers : pc[w] \in {"unstarted", "exit"} /\ url[w] = 0
            /\ \A e \in 1..Len(cfg.URLs) :
                  Begun(e) /\ (e \in undiscovered \/ Completed(e)))

\* Run has returned: two workers were started for two targets, and both targets were
\* health-checked.
C37_Witness ==
    /\ runPc = "returned" /\ runErr = Nil
    /\ Len(cfg.URLs) = 2 /\ PoolSize = 2
    /\ CheckedOf(1) # {} /\ CheckedOf(2) # {}
    /\ \A w \in Workers : pc[w] = "exit"


\* C38: no Write is made to a stream after it was closed.  A stream is closed only
\* in the step in which Run returns, Run has returned only when no worker is in
\* its loop, a record is added to a stream only by a worker that is at its Write
\* and stays in its loop, and only while the stream is open.
C38_NoWriteAfterClose ==
    /\ [][closed' # closed => (runPc # "returned" /\ runPc' = "returned")]_vars
    /\ [](runPc = "returned" => \A w \in Workers : pc[w] \in {"unstarted", "exit"})
    /\ [][csv' # csv =>
            /\ "csv" \notin closed /\ "csv" \notin closed'
            /\ \E w \in Workers : pc[w] = "csv" /\ pc'[w] # "exit"]_vars
    /\ [][json' # json =>
            /\ "json" \notin closed /\ "json" \notin closed'
            /\ \E w \in Workers : pc[w] = "json" /\ pc'[w] # "exit"]_vars

\* Run has returned and closed both streams, each of which holds a Result.
C38_Witness ==
    /\ runPc = "returned" /\ closed = {"csv", "json"}
    /\ csv # <<>> /\ json # <<>>
    /\ PoolSize = 2


\* The records of the CSV file, one for every two fields, as <<worker, number>> of
\* the Result they belong to.
CSVRecords == [k \in 1..(Len(csvFile) \div 2) |-> <<csvFile[2 * k][1], csvFile[2 * k][2]>>]

\* C39: when every worker has written all its Results, the CSV file and the JSON
\* file hold the same sequence of Results.
C39_SameSequence ==
    (\A w \in Workers : sinkPc[w] = "done") => CSVRecords = jsonFile


\* The records of the input that have the key of record m, and those of them that
\* are in the class of m: without error, or with one.
SameKey(m) == {k \in 1..Len(results) : GroupKey(results[k]) = GroupKey(m)}

SameClass(m) == {k \in SameKey(m) : (results[k].error = "") = (m.error = "")}

\* C40: the output of forest_merge_results has exactly one record for each key of
\* the input; the record of a key is one of the key's records, one without error
\* when the key has such a record, and none of the key's records of its class has
\* a greater timestamp; and the function leaves its own output unchanged.
C40_MergeKeepsTheBestOfEachKey ==
    /\ [](applied >= 1 =>
            /\ \A k \in 1..Len(results) :
                  Cardinality({g \in 1..Len(merged) :
                                  GroupKey(merged[g]) = GroupKey(results[k])}) = 1
            /\ \A g \in 1..Len(merged) :
                  /\ \E k \in SameKey(merged[g]) : results[k] = merged[g]
                  /\ (\E k \in SameKey(merged[g]) : results[k].error = "")
                        => merged[g].error = ""
                  /\ \A k \in SameClass(merged[g]) :
                        results[k].timestamp <= merged[g].timestamp)
    /\ [][(applied = 1 /\ applied' = 2) => merged' = merged]_vars

\* Three records of one key went through the function twice: the most recent one
\* failed, and the later of the two older ones, which did not, is the output.
C40_Witness ==
    /\ applied = 2
    /\ Len(results) = 3 /\ Len(merged) = 1
    /\ \E a, b, c \in 1..3 :
          /\ results[a].error # "" /\ results[a].timestamp = 2
          /\ results[b].error = "" /\ results[b].timestamp = 1
          /\ results[c].error = "" /\ results[c].timestamp = 1 /\ b # c
    /\ merged[1].error = "" /\ merged[1].timestamp = 1

=============================================================================
